---- MODULE Spec2Model ----
(***************************************************************************)
(* Model of the grocery planner (Lutir/meal_plan_mcp_app): the summary     *)
(* view of streamlit_app.py (extract, normalize, aggregate, reconcile,     *)
(* cache) and the sheet tools of sheet_tools.py it calls.                  *)
(*                                                                         *)
(* Strings are sequences of one-character strings, so that str.lower and   *)
(* str.strip are computed.  Quantities are integers (the code's floats,    *)
(* without rounding).  A Python value of unknown type (the result of       *)
(* json.loads) is a tuple whose first element is its type tag.             *)
(***************************************************************************)
EXTENDS Integers, Sequences, FiniteSets, TLC

VARIABLES
    pc,                     \* position of the script run / function under check
    Sheet1,                 \* the inventory sheet: raw rows of string cells (A2:C)
    all_ingredients,        \* streamlit_app.py:266 list of ingredient phrases
    normalized_ingredients, \* streamlit_app.py:282
    deduped_ingredients,    \* streamlit_app.py:295
    inventory_aware_list,   \* streamlit_app.py:299
    error,                  \* the exception that ended the run, "" when none
    replies,                \* history: the normalization service's reply to each call
    num_days,               \* streamlit_app.py:125 sidebar slider
    meals,                  \* streamlit_app.py:140 the selected meals, in order
    dish_plan,              \* st.session_state["dish_plan"]
    planning_view_mode,     \* st.session_state["planning_view_mode"]
    current_day_idx,        \* st.session_state["current_day_idx"]
    shopping_list_cache,    \* st.session_state["shopping_list_cache"]: <<>> when absent
    extract_log,            \* history: the extraction calls of this run, in order
    inventory_reads,        \* history: the sheet contents read in this run
    cache_sheet,            \* history: the sheet contents the cached list was computed from
    sheets,                 \* the spreadsheet's other sheets: name -> rows, row 1 first
    clock,                  \* datetime.datetime.now(), in seconds
    message,                \* what the last save showed the user
    save_log,               \* history: the saves made, with their list and outcome
    editors,                \* the Inventory Checker sessions: user -> state of its save
    last_clear,             \* history: the user whose clear of Sheet1 came last
    response_text,          \* ingredient_extractor.py:74 result.final_output
    returned_ingredients,   \* ingredient_extractor.py:53 the value extract_ingredients returns
    ingredient_strings,     \* streamlit_app.py:61 the argument of parse_ingredients_to_dicts
    parsed_ingredients,     \* streamlit_app.py:65
    agents,                 \* AgentOrchestrator.agents: name -> status of the agent
    execution_order,        \* AgentOrchestrator.execution_order
    results,                \* execute_workflow: results, name -> success of the result
    executed,               \* history: the calls of execute, in order, and how each ended
    workflow,               \* position of execute_workflow
    context,                \* AgentOrchestrator.context: inventory, metadata, shopping_list
    Sheet2,                 \* the order sheet: raw rows (A2:C)
    today,                  \* streamlit_app.py:163 datetime.date.today(), as a weekday number
    last_config,            \* st.session_state["last_config"], <<>> when absent
    days,                   \* streamlit_app.py:166 the days of the current script run
    page_reads,             \* history: the index and the dish_plan keys the last run used
    tool_call               \* a call of a sheet tool: its arguments and its position

\* the session state of the planner
sessionVars == <<num_days, meals, dish_plan, planning_view_mode, current_day_idx,
                 shopping_list_cache, cache_sheet>>

\* the histories of a run of the summary view
runLogs == <<extract_log, inventory_reads>>

\* the shopping-list sheets and the save of a list
storeVars == <<sheets, clock, message, save_log>>

\* the Inventory Checker sessions
editorVars == <<editors, last_clear>>

\* the arguments and results of the parsing functions
parseVars == <<response_text, returned_ingredients, ingredient_strings, parsed_ingredients>>

\* the orchestrator, its agents and the order sheet
agentVars == <<agents, execution_order, results, executed, workflow, context, Sheet2>>

\* the date, the configuration and the days of the planning views
pageVars == <<today, last_config, days, page_reads>>

\* a call of a sheet tool
callVars == <<tool_call>>

vars == <<pc, Sheet1, all_ingredients, normalized_ingredients,
          deduped_ingredients, inventory_aware_list, error, replies,
          num_days, meals, dish_plan, planning_view_mode, current_day_idx,
          shopping_list_cache, extract_log, inventory_reads, cache_sheet,
          sheets, clock, message, save_log, editors, last_clear,
          response_text, returned_ingredients, ingredient_strings, parsed_ingredients,
          agents, execution_order, results, executed, workflow, context, Sheet2,
          today, last_config, days, page_reads, tool_call>>

(***************************************************************************)
(* Bounds of the model.                                                    *)
(***************************************************************************)
MaxRows == 2
MaxReq == 2
MaxIng == 3
MaxPhrases == 3
MaxDays == 2
MaxSlots == 2
MaxEdit == 2
MaxSaves == 2
MaxParse == 2
MaxOrder == 3

(***************************************************************************)
(* str.lower, str.strip, float(str)                                        *)
(***************************************************************************)
LowerChar(c) ==
    CASE c = "A" -> "a" [] c = "B" -> "b" [] c = "C" -> "c" [] c = "D" -> "d"
      [] c = "E" -> "e" [] c = "F" -> "f" [] c = "G" -> "g" [] c = "H" -> "h"
      [] c = "I" -> "i" [] c = "J" -> "j" [] c = "K" -> "k" [] c = "L" -> "l"
      [] c = "M" -> "m" [] c = "N" -> "n" [] c = "O" -> "o" [] c = "P" -> "p"
      [] c = "Q" -> "q" [] c = "R" -> "r" [] c = "S" -> "s" [] c = "T" -> "t"
      [] c = "U" -> "u" [] c = "V" -> "v" [] c = "W" -> "w" [] c = "X" -> "x"
      [] c = "Y" -> "y" [] c = "Z" -> "z"
      [] OTHER -> c

Lower(s) == [i \in 1..Len(s) |-> LowerChar(s[i])]

IsSpace(c) == c \in {" ", "\n", "\t"}

RECURSIVE LStrip(_)
LStrip(s) ==
    IF s # <<>> /\ IsSpace(Head(s)) THEN LStrip(Tail(s)) ELSE s

RECURSIVE RStrip(_)
RStrip(s) ==
    IF s # <<>> /\ IsSpace(s[Len(s)]) THEN RStrip(SubSeq(s, 1, Len(s) - 1)) ELSE s

Strip(s) == RStrip(LStrip(s))

Digits == {"0", "1", "2", "3", "4", "5", "6", "7", "8", "9"}

DigitValue(c) ==
    CASE c = "0" -> 0 [] c = "1" -> 1 [] c = "2" -> 2 [] c = "3" -> 3 [] c = "4" -> 4
      [] c = "5" -> 5 [] c = "6" -> 6 [] c = "7" -> 7 [] c = "8" -> 8 [] c = "9" -> 9

RECURSIVE DigitsValue(_)
DigitsValue(s) ==
    IF s = <<>> THEN 0
    ELSE 10 * DigitsValue(SubSeq(s, 1, Len(s) - 1)) + DigitValue(s[Len(s)])

\* float(s) of a cell: surrounding whitespace is ignored, then an optional
\* sign and digits (whole numbers only in this model); anything else raises
\* ValueError.
FloatParses(s) ==
    LET t == Strip(s)
        d == IF t # <<>> /\ Head(t) \in {"-", "+"} THEN Tail(t) ELSE t
    IN  d # <<>> /\ \A i \in 1..Len(d) : d[i] \in Digits

FloatValue(s) ==
    LET t == Strip(s)
        neg == t # <<>> /\ Head(t) = "-"
        d == IF t # <<>> /\ Head(t) \in {"-", "+"} THEN Tail(t) ELSE t
    IN  IF neg THEN 0 - DigitsValue(d) ELSE DigitsValue(d)

(***************************************************************************)
(* sheet_tools.get_inventory: rows of Sheet1!A2:C to {item, quantity,      *)
(* unit}; rows that are empty or whose first cell is blank are skipped.    *)
(* float() of a non-numeric quantity cell raises.                          *)
(***************************************************************************)
RowSkipped(row) == Len(row) = 0 \/ Strip(row[1]) = <<>>

RowRaises(row) ==
    ~RowSkipped(row) /\ Len(row) > 1 /\ row[2] # <<>> /\ ~FloatParses(row[2])

RowRecord(row) ==
    [item |-> Strip(row[1]),
     quantity |-> IF Len(row) > 1 /\ row[2] # <<>> THEN FloatValue(row[2]) ELSE 0,
     unit |-> IF Len(row) > 2 /\ row[3] # <<>> THEN Strip(row[3]) ELSE <<>>]

RECURSIVE InventoryRows(_)
InventoryRows(values) ==
    IF values = <<>> THEN <<>>
    ELSE IF RowSkipped(Head(values)) THEN InventoryRows(Tail(values))
    ELSE <<RowRecord(Head(values))>> \o InventoryRows(Tail(values))

\* [raised, value]: raised when the request fails (failed) or a cell does not parse
get_inventory(values, failed) ==
    IF failed \/ \E i \in 1..Len(values) : RowRaises(values[i])
    THEN [raised |-> TRUE, value |-> <<>>]
    ELSE [raised |-> FALSE, value |-> InventoryRows(values)]

(***************************************************************************)
(* sheet_tools.generate_inventory_aware_shopping_list                      *)
(***************************************************************************)
\* mutant: the first row of a name is kept, later rows of that name are ignored
RECURSIVE BuildLookup_FirstWins(_, _)
BuildLookup_FirstWins(current_inventory, acc) ==
    IF current_inventory = <<>> THEN acc
    ELSE LET item == Head(current_inventory)
             key == Strip(Lower(item.item))
             val == [quantity |-> item.quantity, unit |-> item.unit]
         IN  BuildLookup_FirstWins(Tail(current_inventory),
                 [k \in (DOMAIN acc) \cup {key} |-> IF k \in DOMAIN acc THEN acc[k] ELSE val])

\* inventory_lookup: a dict keyed by item.lower().strip(); a later row
\* overwrites an earlier one with the same key
RECURSIVE BuildLookup(_, _)
BuildLookup(current_inventory, acc) ==
    IF current_inventory = <<>> THEN acc
    ELSE LET item == Head(current_inventory)
             key == Strip(Lower(item.item))
             val == [quantity |-> item.quantity, unit |-> item.unit]
         IN  BuildLookup(Tail(current_inventory),
                 [k \in (DOMAIN acc) \cup {key} |-> IF k = key THEN val ELSE acc[k]])

inventory_lookup(current_inventory) == BuildLookup(current_inventory, <<>>)

StatusHave(qty, unit) == <<"Have", qty, unit>>
StatusDifferentUnit(qty, unit) == <<"Have", qty, unit, "(different unit)">>
StatusNotInInventory == <<"Not in inventory">>

Max(a, b) == IF a >= b THEN a ELSE b

ShoppingEntry(ingredient, qty, status) ==
    [item |-> ingredient.item, quantity |-> qty, unit |-> ingredient.unit,
     inventory_status |-> status]

\* mutant: the available quantity is not subtracted
ReconcileEntry_NoSubtract(ingredient, lookup) ==
    LET item_name == Strip(Lower(ingredient.item))
    IN  IF item_name \in DOMAIN lookup
        THEN LET a == lookup[item_name]
             IN  IF Lower(a.unit) = Lower(ingredient.unit)
                 THEN IF ingredient.quantity > 0
                      THEN <<ShoppingEntry(ingredient, ingredient.quantity,
                                           StatusHave(a.quantity, a.unit))>>
                      ELSE <<>>
                 ELSE <<ShoppingEntry(ingredient, ingredient.quantity,
                                      StatusDifferentUnit(a.quantity, a.unit))>>
        ELSE <<ShoppingEntry(ingredient, ingredient.quantity, StatusNotInInventory)>>

\* mutant: the units are not compared, the quantity is subtracted whatever the unit
ReconcileEntry_IgnoreUnit(ingredient, lookup) ==
    LET item_name == Strip(Lower(ingredient.item))
    IN  IF item_name \in DOMAIN lookup
        THEN LET a == lookup[item_name]
                 needed_qty == Max(0, ingredient.quantity - a.quantity)
             IN  IF needed_qty > 0
                 THEN <<ShoppingEntry(ingredient, needed_qty, StatusHave(a.quantity, a.unit))>>
                 ELSE <<>>
        ELSE <<ShoppingEntry(ingredient, ingredient.quantity, StatusNotInInventory)>>

\* mutant: an ingredient that is not in the inventory is dropped
ReconcileEntry_SkipAbsent(ingredient, lookup) ==
    LET item_name == Strip(Lower(ingredient.item))
    IN  IF item_name \in DOMAIN lookup
        THEN LET a == lookup[item_name]
             IN  IF Lower(a.unit) = Lower(ingredient.unit)
                 THEN LET needed_qty == Max(0, ingredient.quantity - a.quantity)
                      IN  IF needed_qty > 0
                          THEN <<ShoppingEntry(ingredient, needed_qty,
                                               StatusHave(a.quantity, a.unit))>>
                          ELSE <<>>
                 ELSE <<ShoppingEntry(ingredient, ingredient.quantity,
                                      StatusDifferentUnit(a.quantity, a.unit))>>
        ELSE <<>>

\* one pass of the loop over required_ingredients: the entries appended for
\* `ingredient` (none or one)
ReconcileEntry(ingredient, lookup) ==
    LET item_name == Strip(Lower(ingredient.item))
        required_qty == ingredient.quantity
        required_unit == ingredient.unit
    IN  IF item_name \in DOMAIN lookup
        THEN LET available_qty == lookup[item_name].quantity
                 available_unit == lookup[item_name].unit
             IN  IF Lower(available_unit) = Lower(required_unit)
                 THEN LET needed_qty == Max(0, required_qty - available_qty)
                      IN  IF needed_qty > 0
                          THEN <<ShoppingEntry(ingredient, needed_qty,
                                               StatusHave(available_qty, available_unit))>>
                          ELSE <<>>
                 ELSE <<ShoppingEntry(ingredient, required_qty,
                                      StatusDifferentUnit(available_qty, available_unit))>>
        ELSE <<ShoppingEntry(ingredient, required_qty, StatusNotInInventory)>>

RECURSIVE ReconcileLoop(_, _)
ReconcileLoop(required_ingredients, lookup) ==
    IF required_ingredients = <<>> THEN <<>>
    ELSE ReconcileEntry(Head(required_ingredients), lookup)
             \o ReconcileLoop(Tail(required_ingredients), lookup)

\* mutant: a failed read is taken for an empty inventory
generate_inventory_aware_shopping_list_Swallow(required_ingredients, values, failed) ==
    LET current_inventory == get_inventory(values, failed)
    IN  [raised |-> FALSE,
         value |-> ReconcileLoop(required_ingredients,
                                 inventory_lookup(current_inventory.value))]

\* [raised, value]: the exception of get_inventory is not caught
generate_inventory_aware_shopping_list(required_ingredients, values, failed) ==
    LET current_inventory == get_inventory(values, failed)
    IN  IF current_inventory.raised
        THEN [raised |-> TRUE, value |-> <<>>]
        ELSE [raised |-> FALSE,
              value |-> ReconcileLoop(required_ingredients,
                                      inventory_lookup(current_inventory.value))]

(***************************************************************************)
(* Python values: the result of json.loads is of any JSON type.            *)
(***************************************************************************)
PyStr(s) == <<"str", s>>
PyNum(n) == <<"num", n>>
PyNone == <<"null">>
PyList(elems) == <<"list", elems>>
PyDict(d) == <<"dict", d>>

IsStr(v) == v[1] = "str"
IsDict(v) == v[1] = "dict"
HasKey(v, k) == IsDict(v) /\ k \in DOMAIN v[2]

(***************************************************************************)
(* ingredient_extractor.py:53-94, AIngredientExtractorAgent.extract_ingredients *)
(*                                                                         *)
(* The outcome of asyncio.run(Runner.run(agent, prompt)) is one of         *)
(*   <<"raise", e>>       the run raises, str(e) being e                   *)
(*   <<"output", t>>      it returns, result.final_output being t:         *)
(*        <<"none">>            None                                       *)
(*        <<"list", phrases>>   text holding a list literal of strings     *)
(*        <<"plain", text>>     text without brackets or delimiters        *)
(***************************************************************************)
ExtractionFailedFor ==
    <<"A", "I", " ", "e", "x", "t", "r", "a", "c", "t", "i", "o", "n", " ",
      "f", "a", "i", "l", "e", "d", " ", "f", "o", "r", " ">>

\* f"AI extraction failed for {dish_name}: {e}"
FailureMarker(dish_name, e) == ExtractionFailedFor \o dish_name \o <<":", " ">> \o e

\* str(e) of the AttributeError of None.strip()
NoneHasNoStrip ==
    <<"'", "N", "o", "n", "e", "T", "y", "p", "e", "'", " ", "o", "b",
      "j", "e", "c", "t", " ", "h", "a", "s", " ", "n", "o", " ", "a",
      "t", "t", "r", "i", "b", "u", "t", "e", " ", "'", "s", "t", "r",
      "i", "p", "'">>

\* mutant: the exception of the run is not caught
extract_ingredients_Propagate(dish_name, outcome) ==
    IF outcome[1] = "raise" THEN [raised |-> TRUE, value |-> <<>>]
    ELSE IF outcome[2][1] = "none"
         THEN [raised |-> FALSE, value |-> <<FailureMarker(dish_name, NoneHasNoStrip)>>]
         ELSE IF outcome[2][1] = "list"
              THEN [raised |-> FALSE,
                    value |-> [i \in 1..Len(outcome[2][2]) |-> Strip(outcome[2][2][i])]]
              ELSE [raised |-> FALSE, value |-> <<Strip(outcome[2][2])>>]

\* mutant: a failed extraction yields no ingredients and no marker
extract_ingredients_Silent(dish_name, outcome) ==
    IF outcome[1] = "raise" THEN [raised |-> FALSE, value |-> <<>>]
    ELSE IF outcome[2][1] = "none"
         THEN [raised |-> FALSE, value |-> <<>>]
         ELSE IF outcome[2][1] = "list"
              THEN [raised |-> FALSE,
                    value |-> [i \in 1..Len(outcome[2][2]) |-> Strip(outcome[2][2][i])]]
              ELSE [raised |-> FALSE, value |-> <<Strip(outcome[2][2])>>]

\* [raised, value]: every exception is caught by the outer except and turned
\* into a one-element list holding the failure marker
extract_ingredients(dish_name, outcome) ==
    IF outcome[1] = "raise"
    THEN [raised |-> FALSE, value |-> <<FailureMarker(dish_name, outcome[2])>>]
    ELSE LET final_output == outcome[2]
         IN  IF final_output[1] = "none"
             THEN [raised |-> FALSE,
                   value |-> <<FailureMarker(dish_name, NoneHasNoStrip)>>]
             ELSE IF final_output[1] = "list"
                  THEN [raised |-> FALSE,
                        value |-> [i \in 1..Len(final_output[2]) |->
                                      Strip(final_output[2][i])]]
                  ELSE [raised |-> FALSE, value |-> <<Strip(final_output[2])>>]

(***************************************************************************)
(* streamlit_app.py:72-110, normalize_ingredient_openai and                *)
(* normalize_ingredients_openai                                            *)
(*                                                                         *)
(* The outcome of client.chat.completions.create is one of                 *)
(*   <<"raise">>          the call raises (network or service error)       *)
(*   <<"content", t>>     it returns, message.content being t:             *)
(*        <<"none">>        content is None                                *)
(*        <<"text">>        text that is no JSON document                  *)
(*        <<"json", v>>     a JSON document that denotes the value v       *)
(***************************************************************************)
CallRaises(outcome) == outcome[1] = "raise"

\* json.loads(text): [raised, value]
json_loads(text) ==
    IF text[1] = "json" THEN [raised |-> FALSE, value |-> text[2]]
    ELSE [raised |-> TRUE, value |-> PyNone]

Fallback(ingredient_str) ==
    PyDict([item |-> PyStr(ingredient_str), quantity |-> PyNum(1),
            unit |-> PyStr(<<"p", "i", "e", "c", "e">>)])

\* [raised, value]: the call is outside the try, so its exception propagates;
\* the try covers json.loads alone
normalize_ingredient_openai(ingredient_str, outcome) ==
    IF CallRaises(outcome) THEN [raised |-> TRUE, value |-> PyNone]
    ELSE LET text == IF outcome[2][1] = "none" THEN <<"text">> ELSE outcome[2]
             parsed == json_loads(text)
         IN  [raised |-> FALSE,
              value |-> IF parsed.raised THEN Fallback(ingredient_str) ELSE parsed.value]

(***************************************************************************)
(* streamlit_app.py:283-298, the aggregation of the summary view           *)
(***************************************************************************)
\* mutant: a missing or null quantity counts as 1
QuantityOf_MissingIsOne(ing) ==
    IF ~IsDict(ing) THEN 0
    ELSE IF ~HasKey(ing, "quantity") THEN 1
    ELSE LET q == ing[2].quantity
         IN  CASE q[1] = "num" -> q[2]
               [] q[1] = "str" -> IF q[2] # <<>> /\ FloatParses(q[2])
                                  THEN FloatValue(q[2]) ELSE 0
               [] q[1] = "null" -> 1
               [] OTHER -> 0

\* float(ing.get("quantity", 0) or 0), and 0.0 on any exception
QuantityOf(ing) ==
    IF ~IsDict(ing) THEN 0
    ELSE IF ~HasKey(ing, "quantity") THEN 0
    ELSE LET q == ing[2].quantity
         IN  CASE q[1] = "num" -> q[2]
               [] q[1] = "str" -> IF q[2] # <<>> /\ FloatParses(q[2])
                                  THEN FloatValue(q[2]) ELSE 0
               [] OTHER -> 0

\* ing["item"].lower().strip(), ing["unit"].lower().strip() raise unless ing
\* is a dict with the keys item and unit, both strings
KeyRaises(ing) ==
    \/ ~IsDict(ing)
    \/ ~HasKey(ing, "item")
    \/ ~HasKey(ing, "unit")
    \/ ~IsStr(ing[2].item)
    \/ ~IsStr(ing[2].unit)

\* mutant: the unit is not part of the grouping key
GroupKey_ItemOnly(ing) == <<Strip(Lower(ing[2].item[2])), <<>> >>

\* mutant: the key is not normalised
GroupKey_Raw(ing) == <<ing[2].item[2], ing[2].unit[2]>>

GroupKey(ing) == <<Strip(Lower(ing[2].item[2])), Strip(Lower(ing[2].unit[2]))>>

KeyIndex(grouped, key) == {i \in 1..Len(grouped) : grouped[i].key = key}

\* one pass of the loop: grouped is the dict in insertion order
AggregateStep(grouped, ing) ==
    LET qty == QuantityOf(ing)
        key == GroupKey(ing)
        unit == ing[2].unit[2]
    IN  IF KeyIndex(grouped, key) = {}
        THEN Append(grouped, [key |-> key, quantity |-> 0 + qty, unit |-> unit])
        ELSE [i \in 1..Len(grouped) |->
                 IF grouped[i].key = key
                 THEN [key |-> key, quantity |-> grouped[i].quantity + qty, unit |-> unit]
                 ELSE grouped[i]]

\* [raised, value]: value is the dict after the loop over normalized_ingredients
RECURSIVE AggregateLoop(_, _)
AggregateLoop(normalized, grouped) ==
    IF normalized = <<>> THEN [raised |-> FALSE, value |-> grouped]
    ELSE IF KeyRaises(Head(normalized)) THEN [raised |-> TRUE, value |-> <<>>]
    ELSE AggregateLoop(Tail(normalized), AggregateStep(grouped, Head(normalized)))

\* deduped_ingredients, or the exception of the loop
Aggregate(normalized) ==
    LET grouped == AggregateLoop(normalized, <<>>)
    IN  IF grouped.raised THEN [raised |-> TRUE, value |-> <<>>]
        ELSE [raised |-> FALSE,
              value |-> [i \in 1..Len(grouped.value) |->
                            [item |-> grouped.value[i].key[1],
                             quantity |-> grouped.value[i].quantity,
                             unit |-> grouped.value[i].unit]]]

(***************************************************************************)
(* The checks of single functions run outside a planner session.           *)
(***************************************************************************)
NoSession ==
    /\ num_days = 1
    /\ meals = <<"Lunch">>
    /\ dish_plan = <<>>
    /\ planning_view_mode = "day_by_day"
    /\ current_day_idx = 0
    /\ shopping_list_cache = <<>>
    /\ extract_log = <<>>
    /\ inventory_reads = <<>>
    /\ cache_sheet = <<>>

\* no shopping-list sheet exists and nothing was saved
NoStore ==
    /\ sheets = <<>>
    /\ clock = 0
    /\ message = ""
    /\ save_log = <<>>

\* no Inventory Checker session is open
NoEditors ==
    /\ editors = <<>>
    /\ last_clear = 0

\* the parsing functions are not in use
NoParse ==
    /\ response_text = <<>>
    /\ returned_ingredients = <<>>
    /\ ingredient_strings = <<>>
    /\ parsed_ingredients = <<>>

NoAgents ==
    /\ agents = <<>>
    /\ execution_order = <<>>
    /\ results = <<>>
    /\ executed = <<>>
    /\ workflow = ""
    /\ context = <<>>
    /\ Sheet2 = <<>>

NoPage ==
    /\ today = 0
    /\ last_config = <<>>
    /\ days = <<>>
    /\ page_reads = <<>>

NoCall == tool_call = <<>>

(***************************************************************************)
(* Inputs of the reconciliation check                                      *)
(***************************************************************************)
egg == <<"e", "g", "g">>
oat == <<"o", "a", "t">>
kg == <<"k", "g">>

SeqsUpTo(S, n) == UNION {[1..k -> S] : k \in 0..n}

SheetRows ==
    { <<>>, << <<" ">> >>, <<egg>>,
      <<egg, <<"2">>, kg>>,
      << <<" ", "E", "g", "g">>, <<"1">>, <<"K", "g">> >>,
      <<oat, <<>>, <<"l", " ">> >>,
      <<egg, <<"x">>, kg>> }

ReqItems == {egg, <<"E", "g", "g", " ">>}
ReqQuantities == {1, 3}
ReqUnits == {<<"K", "G">>, <<"k", "g", " ">>}

RequiredIngredient == [item : ReqItems, quantity : ReqQuantities, unit : ReqUnits]

InitReconcile ==
    /\ pc = "reconcile"
    /\ Sheet1 \in SeqsUpTo(SheetRows, MaxRows)
    /\ deduped_ingredients \in SeqsUpTo(RequiredIngredient, MaxReq)
    /\ inventory_aware_list = <<>>
    /\ all_ingredients = <<>>
    /\ normalized_ingredients = <<>>
    /\ error = ""
    /\ replies = <<>>
    /\ NoSession
    /\ NoStore
    /\ NoEditors
    /\ NoParse
    /\ NoAgents
    /\ NoPage
    /\ NoCall

\* one call of generate_inventory_aware_shopping_list(deduped_ingredients)
Reconcile ==
    /\ pc = "reconcile"
    /\ LET r == generate_inventory_aware_shopping_list(deduped_ingredients, Sheet1, FALSE)
       IN  /\ pc' = IF r.raised THEN "raised" ELSE "done"
           /\ error' = IF r.raised THEN "inventory read" ELSE ""
           /\ inventory_aware_list' = r.value
    /\ UNCHANGED <<Sheet1, all_ingredients, normalized_ingredients, deduped_ingredients,
                   replies, sessionVars, runLogs>>
    /\ UNCHANGED <<storeVars, editorVars, parseVars, agentVars, pageVars, callVars>>

NextReconcile == Reconcile

SpecReconcile == InitReconcile /\ [][NextReconcile]_vars

\* sheets in which a name may come in several rows
RepeatedRows ==
    { <<egg, <<"2">>, kg>>,
      << <<" ", "E", "g", "g">>, <<"1">>, <<"K", "g">> >>,
      <<oat, <<>>, <<"l", " ">> >> }

InitRepeated ==
    /\ pc = "reconcile"
    /\ Sheet1 \in SeqsUpTo(RepeatedRows, MaxRows)
    /\ deduped_ingredients \in SeqsUpTo(RequiredIngredient, MaxReq)
    /\ inventory_aware_list = <<>>
    /\ all_ingredients = <<>>
    /\ normalized_ingredients = <<>>
    /\ error = ""
    /\ replies = <<>>
    /\ NoSession
    /\ NoStore
    /\ NoEditors
    /\ NoParse
    /\ NoAgents
    /\ NoPage
    /\ NoCall

NextRepeated == Reconcile

SpecRepeated == InitRepeated /\ [][NextRepeated]_vars

(***************************************************************************)
(* Inputs of the aggregation check                                         *)
(***************************************************************************)
AggItems == {egg, <<" ", "E", "g", "g">>}
AggUnits == {kg, <<"K", "G", " ">>, <<"l">>}
AggQuantities == {PyNum(1), PyNum(2)}

NormalizedIngredient ==
    {PyDict([item |-> PyStr(i), quantity |-> q, unit |-> PyStr(u)]) :
        i \in AggItems, q \in AggQuantities, u \in AggUnits}
    \cup { PyDict([item |-> PyStr(oat), quantity |-> PyNum(1), unit |-> PyStr(kg)]),
           PyDict([item |-> PyStr(egg), quantity |-> PyNone, unit |-> PyStr(kg)]),
           PyDict([item |-> PyStr(egg), unit |-> PyStr(<<"K", "G", " ">>)]) }

InitAggregate ==
    /\ pc = "aggregate"
    /\ normalized_ingredients \in SeqsUpTo(NormalizedIngredient, MaxIng)
    /\ deduped_ingredients = <<>>
    /\ Sheet1 = <<>>
    /\ all_ingredients = <<>>
    /\ inventory_aware_list = <<>>
    /\ error = ""
    /\ replies = <<>>
    /\ NoSession
    /\ NoStore
    /\ NoEditors
    /\ NoParse
    /\ NoAgents
    /\ NoPage
    /\ NoCall

\* the loop and the list comprehension of streamlit_app.py:284-298
AggregateAll ==
    /\ pc = "aggregate"
    /\ LET r == Aggregate(normalized_ingredients)
       IN  /\ pc' = IF r.raised THEN "raised" ELSE "done"
           /\ error' = IF r.raised THEN "aggregation" ELSE ""
           /\ deduped_ingredients' = r.value
    /\ UNCHANGED <<Sheet1, all_ingredients, normalized_ingredients, inventory_aware_list,
                   replies, sessionVars, runLogs>>
    /\ UNCHANGED <<storeVars, editorVars, parseVars, agentVars, pageVars, callVars>>

NextAggregate == AggregateAll

SpecAggregate == InitAggregate /\ [][NextAggregate]_vars

(***************************************************************************)
(* Inputs of the normalization check                                       *)
(***************************************************************************)
piece == <<"p", "i", "e", "c", "e">>

Phrases == {egg, <<"2", " ">> \o oat}

ExpectedRecord == PyDict([item |-> PyStr(egg), quantity |-> PyNum(2), unit |-> PyStr(kg)])

\* what the service may answer
ServiceOutcomes ==
    { <<"raise">>,
      <<"content", <<"none">> >>,
      <<"content", <<"text">> >>,
      <<"content", <<"json", ExpectedRecord>> >>,
      <<"content", <<"json", PyDict([item |-> PyStr(egg), quantity |-> PyNum(1)])>> >>,
      <<"content", <<"json", PyDict([item |-> PyStr(egg), quantity |-> PyNum(1),
                                     unit |-> PyNone])>> >>,
      <<"content", <<"json", PyList(<<PyStr(egg)>>)>> >>,
      <<"content", <<"json", PyStr(egg)>> >> }

InitNormalize ==
    /\ all_ingredients \in SeqsUpTo(Phrases, MaxPhrases)
    /\ pc = IF all_ingredients = <<>> THEN "aggregate" ELSE "normalize"
    /\ normalized_ingredients = <<>>
    /\ deduped_ingredients = <<>>
    /\ Sheet1 = <<>>
    /\ inventory_aware_list = <<>>
    /\ error = ""
    /\ replies = <<>>
    /\ NoSession
    /\ NoStore
    /\ NoEditors
    /\ NoParse
    /\ NoAgents
    /\ NoPage
    /\ NoCall

\* one element of the list comprehension of normalize_ingredients_openai: the
\* call for the next ingredient; an exception ends the comprehension and the run
NormalizeOne(outcomes) ==
    /\ pc = "normalize"
    /\ \E outcome \in outcomes :
          LET ing == all_ingredients[Len(normalized_ingredients) + 1]
              r == normalize_ingredient_openai(ing, outcome)
          IN  /\ replies' = Append(replies, outcome)
              /\ IF r.raised
                 THEN /\ pc' = "raised"
                      /\ error' = "normalization"
                      /\ normalized_ingredients' = <<>>
                 ELSE /\ normalized_ingredients' = Append(normalized_ingredients, r.value)
                      /\ pc' = IF Len(normalized_ingredients) + 1 = Len(all_ingredients)
                               THEN "aggregate" ELSE "normalize"
                      /\ error' = error
    /\ UNCHANGED <<Sheet1, all_ingredients, deduped_ingredients, inventory_aware_list,
                   sessionVars, runLogs>>
    /\ UNCHANGED <<storeVars, editorVars, parseVars, agentVars, pageVars, callVars>>

NextNormalize ==
    \/ NormalizeOne(ServiceOutcomes)
    \/ AggregateAll

SpecNormalize == InitNormalize /\ [][NextNormalize]_vars

(***************************************************************************)
(* streamlit_app.py:157-336, the Meal Planner: the planning views and the  *)
(* summary view.  A run of the summary view is cut at its external calls:  *)
(* one step per extraction call, one per normalization call, one for the   *)
(* aggregation with the inventory read, reconciliation and cache store.    *)
(***************************************************************************)
Days == 1..num_days

MealSet == {meals[k] : k \in 1..Len(meals)}

EmptyPlan == [d \in Days |-> [m \in MealSet |-> <<>>]]

\* mutant: the loops nested the other way round, meal by meal
PlanSlot_MealFirst(plan, n) ==
    plan[((n - 1) % num_days) + 1][meals[((n - 1) \div num_days) + 1]]

\* the dishes of the plan in the order of the loops `for day in days: for
\* meal in meals`
PlanSlot(plan, n) == plan[((n - 1) \div Len(meals)) + 1][meals[((n - 1) % Len(meals)) + 1]]

RECURSIVE DishesFrom(_, _)
DishesFrom(plan, n) ==
    IF n > num_days * Len(meals) THEN <<>>
    ELSE LET dish == Strip(PlanSlot(plan, n))
         IN  (IF dish # <<>> THEN <<dish>> ELSE <<>>) \o DishesFrom(plan, n + 1)

\* the dishes extraction is called for: the stripped, non-empty ones
PlannedDishes(plan) == DishesFrom(plan, 1)

\* any(dish_plan[d][m] for d in days for m in meals): a non-empty string is true
AnyDish(plan) == \E d \in Days, m \in MealSet : plan[d][m] # <<>>

\* hashlib.sha256(str(dish_plan).encode()).hexdigest(): one digest per plan
Sha256(plan) == <<"sha256", plan>>

\* mutant: any cached list is taken, whatever its hash
CacheHit_AnyHash(plan, cache) == cache # <<>>

\* "shopping_list_cache" in st.session_state and its hash is the plan's
CacheHit(plan, cache) == cache # <<>> /\ cache[1].hash = Sha256(plan)

\* the start of a run of the summary view: its local variables are fresh
ResetLocals ==
    /\ all_ingredients' = <<>>
    /\ normalized_ingredients' = <<>>
    /\ deduped_ingredients' = <<>>
    /\ inventory_aware_list' = <<>>
    /\ error' = ""
    /\ replies' = <<>>
    /\ extract_log' = <<>>
    /\ inventory_reads' = <<>>

StartRun == pc' = "extract" /\ ResetLocals

runLocals == <<all_ingredients, normalized_ingredients, deduped_ingredients,
               inventory_aware_list, error, replies, extract_log, inventory_reads>>

\* streamlit_app.py:196-227: a submit of the day-by-day form stores the day's
\* text inputs and acts on the button pressed
DayByDaySubmit(values, button) ==
    /\ pc = "planning"
    /\ planning_view_mode = "day_by_day"
    /\ LET idx == current_day_idx
           plan == [dish_plan EXCEPT ![idx + 1] = values]
       IN  /\ dish_plan' = plan
           /\ \/ /\ button = "prev"
                 /\ idx # 0
                 /\ current_day_idx' = Max(0, idx - 1)
                 /\ UNCHANGED <<pc, planning_view_mode, runLocals>>
              \/ /\ button = "next"
                 /\ idx # num_days - 1
                 /\ current_day_idx' = IF num_days - 1 <= idx + 1 THEN num_days - 1 ELSE idx + 1
                 /\ UNCHANGED <<pc, planning_view_mode, runLocals>>
              \/ /\ button = "finish"
                 /\ IF AnyDish(plan)
                    THEN /\ current_day_idx' = 0
                         /\ planning_view_mode' = "summary"
                         /\ StartRun
                    ELSE UNCHANGED <<pc, current_day_idx, planning_view_mode, runLocals>>
    /\ UNCHANGED <<Sheet1, num_days, meals, shopping_list_cache, cache_sheet>>
    /\ UNCHANGED <<storeVars, editorVars, parseVars, agentVars, pageVars, callVars>>

\* streamlit_app.py:230-242: "Plan My Week!" stores all text inputs and goes
\* to the summary
MasterSubmit(plan) ==
    /\ pc = "planning"
    /\ planning_view_mode = "master"
    /\ dish_plan' = plan
    /\ planning_view_mode' = "summary"
    /\ StartRun
    /\ UNCHANGED <<Sheet1, num_days, meals, current_day_idx, shopping_list_cache,
                   cache_sheet>>
    /\ UNCHANGED <<storeVars, editorVars, parseVars, agentVars, pageVars, callVars>>

\* streamlit_app.py:188-193: the view toggle button
SwitchView ==
    /\ pc \in {"planning", "displayed", "raised"}
    /\ planning_view_mode' = IF planning_view_mode = "day_by_day" THEN "master"
                             ELSE "day_by_day"
    /\ pc' = "planning"
    /\ ResetLocals
    /\ UNCHANGED <<Sheet1, num_days, meals, dish_plan, current_day_idx,
                   shopping_list_cache, cache_sheet>>
    /\ UNCHANGED <<storeVars, editorVars, parseVars, agentVars, pageVars, callVars>>

\* streamlit_app.py:336: "Start Over"
StartOver ==
    /\ pc = "displayed"
    /\ planning_view_mode' = "day_by_day"
    /\ current_day_idx' = 0
    /\ pc' = "planning"
    /\ ResetLocals
    /\ UNCHANGED <<Sheet1, num_days, meals, dish_plan, shopping_list_cache,
                   cache_sheet>>
    /\ UNCHANGED <<storeVars, editorVars, parseVars, agentVars, pageVars, callVars>>

\* a rerun of the script in the summary view (any widget event, such as the
\* save button of streamlit_app.py:330)
Rerun ==
    /\ pc \in {"displayed", "raised"}
    /\ planning_view_mode = "summary"
    /\ StartRun
    /\ UNCHANGED <<Sheet1, sessionVars>>
    /\ UNCHANGED <<storeVars, editorVars, parseVars, agentVars, pageVars, callVars>>

\* streamlit_app.py:267-273: the extraction call for the next planned dish
ExtractOne(outcomes) ==
    /\ pc = "extract"
    /\ Len(extract_log) < Len(PlannedDishes(dish_plan))
    /\ \E outcome \in outcomes :
          LET dish == PlannedDishes(dish_plan)[Len(extract_log) + 1]
              ingredients == extract_ingredients(dish, outcome)
          IN  /\ extract_log' = Append(extract_log, [dish |-> dish, outcome |-> outcome])
              /\ IF ingredients.raised
                 THEN /\ pc' = "raised"
                      /\ error' = "extraction"
                      /\ UNCHANGED all_ingredients
                 ELSE /\ all_ingredients' = all_ingredients \o ingredients.value
                      /\ UNCHANGED <<pc, error>>
    /\ UNCHANGED <<Sheet1, normalized_ingredients, deduped_ingredients,
                   inventory_aware_list, replies, inventory_reads, sessionVars>>
    /\ UNCHANGED <<storeVars, editorVars, parseVars, agentVars, pageVars, callVars>>

\* streamlit_app.py:276-277, 305-307: after the extraction loop the cached
\* list is taken when its hash is the plan's
CheckCache ==
    /\ pc = "extract"
    /\ Len(extract_log) = Len(PlannedDishes(dish_plan))
    /\ IF CacheHit(dish_plan, shopping_list_cache)
       THEN /\ deduped_ingredients' = shopping_list_cache[1].deduped_ingredients
            /\ inventory_aware_list' = shopping_list_cache[1].inventory_aware_list
            /\ pc' = "displayed"
       ELSE /\ pc' = IF all_ingredients = <<>> THEN "aggregate" ELSE "normalize"
            /\ UNCHANGED <<deduped_ingredients, inventory_aware_list>>
    /\ UNCHANGED <<Sheet1, all_ingredients, normalized_ingredients, error, replies,
                   runLogs, sessionVars>>
    /\ UNCHANGED <<storeVars, editorVars, parseVars, agentVars, pageVars, callVars>>

\* streamlit_app.py:283-304: aggregation, then the call of
\* generate_inventory_aware_shopping_list, whose inventory read may fail, then
\* the store of the cache
ReconcileAndStore(failed) ==
    /\ pc = "aggregate"
    /\ LET agg == Aggregate(normalized_ingredients)
           r == generate_inventory_aware_shopping_list(agg.value, Sheet1, failed)
       IN  IF agg.raised
           THEN /\ pc' = "raised"
                /\ error' = "aggregation"
                /\ UNCHANGED <<deduped_ingredients, inventory_aware_list, inventory_reads,
                               shopping_list_cache, cache_sheet>>
           ELSE /\ deduped_ingredients' = agg.value
                /\ inventory_reads' =
                      Append(inventory_reads,
                             [sheet |-> Sheet1,
                              raised |-> get_inventory(Sheet1, failed).raised])
                /\ IF r.raised
                   THEN /\ pc' = "raised"
                        /\ error' = "inventory read"
                        /\ UNCHANGED <<inventory_aware_list, shopping_list_cache, cache_sheet>>
                   ELSE /\ pc' = "displayed"
                        /\ inventory_aware_list' = r.value
                        /\ shopping_list_cache' =
                              <<[hash |-> Sha256(dish_plan),
                                 deduped_ingredients |-> agg.value,
                                 inventory_aware_list |-> r.value]>>
                        /\ cache_sheet' = Sheet1
                        /\ UNCHANGED error
    /\ UNCHANGED <<Sheet1, all_ingredients, normalized_ingredients, replies, extract_log,
                   num_days, meals, dish_plan, planning_view_mode, current_day_idx>>
    /\ UNCHANGED <<storeVars, editorVars, parseVars, agentVars, pageVars, callVars>>

\* the inventory sheet is edited by another session (the Inventory Checker)
InventoryChange(states) ==
    /\ \E sheet \in states : Sheet1' = sheet /\ sheet # Sheet1
    /\ UNCHANGED <<pc, runLocals, sessionVars>>
    /\ UNCHANGED <<storeVars, editorVars, parseVars, agentVars, pageVars, callVars>>

(***************************************************************************)
(* The planner session: inputs and specification                           *)
(***************************************************************************)
Dal == <<"D", "a", "l">>
Dishes == {<<>>, Dal}
MealChoices == {<<"Lunch">>, <<"Lunch", "Dinner">>}
ErrorTexts == {<<"5", "0", "3">>}

ExtractionOutcomes ==
    {<<"raise", e>> : e \in ErrorTexts}
        \cup {<<"output", <<"none">> >>, <<"output", <<"list", <<egg>> >> >>}

NormalizationOutcomes ==
    { <<"raise">>,
      <<"content", <<"json", ExpectedRecord>> >>,
      <<"content", <<"json", PyStr(egg)>> >> }

SheetStates == { <<>>, << <<egg, <<"3">>, kg>> >> }

Init ==
    /\ num_days \in 1..MaxDays
    /\ meals \in MealChoices
    /\ num_days * Len(meals) <= MaxSlots
    /\ dish_plan = EmptyPlan
    /\ planning_view_mode = "day_by_day"
    /\ current_day_idx = 0
    /\ shopping_list_cache = <<>>
    /\ cache_sheet = <<>>
    /\ Sheet1 = <<>>
    /\ pc = "planning"
    /\ all_ingredients = <<>>
    /\ normalized_ingredients = <<>>
    /\ deduped_ingredients = <<>>
    /\ inventory_aware_list = <<>>
    /\ error = ""
    /\ replies = <<>>
    /\ extract_log = <<>>
    /\ inventory_reads = <<>>
    /\ NoStore
    /\ NoEditors
    /\ NoParse
    /\ NoAgents
    /\ NoPage
    /\ NoCall

Next ==
    \/ \E values \in [MealSet -> Dishes], button \in {"prev", "next", "finish"} :
          DayByDaySubmit(values, button)
    \/ \E plan \in [Days -> [MealSet -> Dishes]] : MasterSubmit(plan)
    \/ SwitchView
    \/ StartOver
    \/ Rerun
    \/ ExtractOne(ExtractionOutcomes)
    \/ CheckCache
    \/ NormalizeOne(NormalizationOutcomes)
    \/ \E failed \in BOOLEAN : ReconcileAndStore(failed)
    \/ InventoryChange(SheetStates)

Spec == Init /\ [][Next]_vars

(***************************************************************************)
(* streamlit_app.py:338-398, the Inventory Checker: "Save Changes" clears  *)
(* the inventory sheet and appends the edited rows one call at a time.     *)
(* A session is cut at its spreadsheet calls.                              *)
(***************************************************************************)
\* mutant: the clear leaves the rows in place
SheetClear_Keep(rows) == rows

\* sheet_tools.py:433-436, values().clear of Sheet1!A2:C
SheetClear(rows) == <<>>

\* sheet_tools.py:415-421, values().append of one row after the last row
SheetAppend(rows, row) == Append(rows, row)

\* the text a cell shows for the number n written RAW
DigitChars == <<"0", "1", "2", "3", "4", "5", "6", "7", "8", "9">>

RECURSIVE NumberCell(_)
NumberCell(n) ==
    IF n < 10 THEN <<DigitChars[n + 1]>>
    ELSE NumberCell(n \div 10) \o <<DigitChars[(n % 10) + 1]>>

\* streamlit_app.py:372-374: the cells appended for a row of the editor
EditedCells(item) ==
    << Strip(item.Item),
       IF item.Quantity = PyNone \/ item.Quantity[2] = 0 THEN NumberCell(0)
       ELSE NumberCell(item.Quantity[2]),
       IF item.Unit = <<>> THEN <<>> ELSE Strip(item.Unit) >>

\* streamlit_app.py:369-370: the next row from i on whose Item is not blank
RECURSIVE NextCall(_, _)
NextCall(edited_inventory, i) ==
    IF i > Len(edited_inventory) THEN i
    ELSE IF Strip(edited_inventory[i].Item) # <<>> THEN i
         ELSE NextCall(edited_inventory, i + 1)

\* streamlit_app.py:364-366: the button handler up to the return of
\* clear_inventory_sheet, whose result string is dropped
SaveClear(u, failed) ==
    /\ u \in DOMAIN editors
    /\ editors[u].pc = "editing"
    /\ Sheet1' = IF failed THEN Sheet1 ELSE SheetClear(Sheet1)
    /\ last_clear' = IF failed THEN last_clear ELSE u
    /\ LET first == NextCall(editors[u].edited_inventory, 1)
           finished == first > Len(editors[u].edited_inventory)
       IN  editors' = [editors EXCEPT
                          ![u].clear_failed = failed,
                          ![u].i = first,
                          ![u].pc = IF finished THEN "done" ELSE "appending",
                          ![u].message = IF finished THEN "success" ELSE ""]
    /\ UNCHANGED <<pc, runLocals, sessionVars, storeVars, parseVars, agentVars, pageVars, callVars>>

\* streamlit_app.py:369-378, 396-397: one append_inventory_item call; its
\* exception leaves the loop for the handler of line 396, the last row is
\* followed by the success message
AppendItem(u, failed) ==
    /\ u \in DOMAIN editors
    /\ editors[u].pc = "appending"
    /\ LET item == editors[u].edited_inventory[editors[u].i]
           next == NextCall(editors[u].edited_inventory, editors[u].i + 1)
           finished == next > Len(editors[u].edited_inventory)
       IN  IF failed
           THEN /\ editors' = [editors EXCEPT ![u].append_failed = TRUE,
                                              ![u].pc = "done",
                                              ![u].message = "error"]
                /\ UNCHANGED Sheet1
           ELSE /\ Sheet1' = SheetAppend(Sheet1, EditedCells(item))
                /\ editors' = [editors EXCEPT
                                  ![u].i = next,
                                  ![u].pc = IF finished THEN "done" ELSE "appending",
                                  ![u].message = IF finished THEN "success" ELSE ""]
    /\ UNCHANGED <<pc, runLocals, sessionVars, storeVars, parseVars, last_clear, agentVars, pageVars, callVars>>

(***************************************************************************)
(* Two Inventory Checker sessions: inputs and specification                *)
(***************************************************************************)
Users == {1, 2}

EditedItems ==
    { [Item |-> egg, Quantity |-> PyNum(2), Unit |-> kg],
      [Item |-> <<" ">> \o oat, Quantity |-> PyNone, Unit |-> <<>>],
      [Item |-> <<" ">>, Quantity |-> PyNum(1), Unit |-> kg] }

\* the sheet holds rows when the editor is shown (streamlit_app.py:347)
LoadedSheets == { << <<egg, <<"3">>, kg>> >> }

Editing(edited_inventory) ==
    [pc |-> "editing", edited_inventory |-> edited_inventory, i |-> 1,
     message |-> "", clear_failed |-> FALSE, append_failed |-> FALSE]

InitEditors ==
    /\ Sheet1 \in LoadedSheets
    /\ editors \in [Users -> {Editing(e) : e \in SeqsUpTo(EditedItems, MaxEdit)}]
    /\ last_clear = 0
    /\ pc = "editing"
    /\ all_ingredients = <<>>
    /\ normalized_ingredients = <<>>
    /\ deduped_ingredients = <<>>
    /\ inventory_aware_list = <<>>
    /\ error = ""
    /\ replies = <<>>
    /\ NoSession
    /\ NoStore
    /\ NoParse
    /\ NoAgents
    /\ NoPage
    /\ NoCall

NextEditors ==
    \/ \E u \in Users, failed \in BOOLEAN : SaveClear(u, failed)
    \/ \E u \in Users, failed \in BOOLEAN : AppendItem(u, failed)

SpecEditors == InitEditors /\ [][NextEditors]_vars

(***************************************************************************)
(* A summary view reconciling while an Inventory Checker session saves     *)
(***************************************************************************)
\* streamlit_app.py:299: generate_inventory_aware_shopping_list reads Sheet1
\* as it is at the time of the call; the rows read and the sessions that
\* were between their clear and their last append are kept as history
ReconcileDuringSave ==
    /\ pc = "reconcile"
    /\ LET r == generate_inventory_aware_shopping_list(deduped_ingredients, Sheet1, FALSE)
       IN  /\ pc' = IF r.raised THEN "raised" ELSE "done"
           /\ error' = IF r.raised THEN "inventory read" ELSE ""
           /\ inventory_aware_list' = r.value
    /\ inventory_reads' =
          Append(inventory_reads,
                 [values |-> Sheet1,
                  saving |-> {u \in DOMAIN editors :
                                 editors[u].pc = "appending" /\ ~editors[u].clear_failed}])
    /\ UNCHANGED <<Sheet1, all_ingredients, normalized_ingredients, deduped_ingredients,
                   replies, extract_log>>
    /\ UNCHANGED <<num_days, meals, dish_plan, planning_view_mode, current_day_idx,
                   shopping_list_cache, cache_sheet>>
    /\ UNCHANGED <<storeVars, editorVars, parseVars, agentVars, pageVars, callVars>>

ReaderRequired ==
    { [item |-> egg, quantity |-> 1, unit |-> <<"K", "G">>],
      [item |-> oat, quantity |-> 3, unit |-> kg] }

InitReader ==
    /\ Sheet1 \in LoadedSheets
    /\ editors \in [{1} -> {Editing(e) : e \in SeqsUpTo(EditedItems, MaxEdit)}]
    /\ last_clear = 0
    /\ pc = "reconcile"
    /\ deduped_ingredients \in SeqsUpTo(ReaderRequired, MaxReq)
    /\ all_ingredients = <<>>
    /\ normalized_ingredients = <<>>
    /\ inventory_aware_list = <<>>
    /\ error = ""
    /\ replies = <<>>
    /\ NoSession
    /\ NoStore
    /\ NoParse
    /\ NoAgents
    /\ NoPage
    /\ NoCall

NextReader ==
    \/ \E u \in Users, failed \in BOOLEAN : SaveClear(u, failed)
    \/ \E u \in Users, failed \in BOOLEAN : AppendItem(u, failed)
    \/ ReconcileDuringSave

SpecReader == InitReader /\ [][NextReader]_vars

(***************************************************************************)
(* sheet_tools.py:105-227, save_shopping_list, and the readers of the      *)
(* sheets it writes.  A sheet is its rows, row 1 first; a workbook is the  *)
(* inventory rows (Sheet1!A2:C) and the other sheets by name.              *)
(***************************************************************************)
MetaSheet == <<"ShoppingLists">>

\* f"ShoppingList_{list_id}"
ItemsSheet(list_id) == <<"ShoppingList_", list_id>>

MetaHeader == <<"List ID", "Date Created", "Meal Plan", "Total Items", "Status">>
ItemsHeader == <<"Item", "Quantity", "Unit", "Status">>

\* values().get(range="<name>!A1") raises when the sheet does not exist
SheetExists(book, name) == name \in DOMAIN book.sheets

\* batchUpdate addSheet: a new empty sheet
AddSheet(book, name) == [book EXCEPT !.sheets = name :> <<>> @@ book.sheets]

\* values().update(range="<name>!A1:..1"): row 1 is set
UpdateRow1(book, name, row) ==
    LET rows == book.sheets[name]
    IN  [book EXCEPT !.sheets[name] =
            IF rows = <<>> THEN <<row>> ELSE [rows EXCEPT ![1] = row]]

\* values().append(range="<name>!A:..", INSERT_ROWS): the rows go after the
\* last row holding data, to row 1 when the sheet holds none
AppendRows(book, name, new_rows) ==
    [book EXCEPT !.sheets[name] = book.sheets[name] \o new_rows]

\* values().clear(range="<name>!A2:.."): row 1 is kept
ClearFromRow2(book, name) ==
    LET rows == book.sheets[name]
    IN  [book EXCEPT !.sheets[name] = IF rows = <<>> THEN <<>> ELSE <<rows[1]>>]

\* sheet_tools.py:207-214
ItemsData(shopping_items) ==
    [k \in 1..Len(shopping_items) |->
        <<shopping_items[k].item, shopping_items[k].quantity,
          shopping_items[k].unit, "pending">>]

\* the calls of save_shopping_list, in order; `fail_at` names the call that
\* raises for a reason of the service ("none": no such failure)
SavePoints ==
    {"none", "get_meta", "add_meta", "header_meta", "append_meta",
     "get_items", "add_items", "header_items", "clear_items", "append_items"}

\* sheet_tools.py:117-149: [raised, book]
EnsureMetaSheet(book, fail_at) ==
    IF fail_at # "get_meta" /\ SheetExists(book, MetaSheet)
    THEN [raised |-> FALSE, book |-> book]
    ELSE IF fail_at = "add_meta" \/ SheetExists(book, MetaSheet)
         THEN [raised |-> TRUE, book |-> book]
         ELSE IF fail_at = "header_meta"
              THEN [raised |-> TRUE, book |-> AddSheet(book, MetaSheet)]
              ELSE [raised |-> FALSE,
                    book |-> UpdateRow1(AddSheet(book, MetaSheet), MetaSheet, MetaHeader)]

\* sheet_tools.py:165-198: [raised, book]
EnsureItemsSheet(book, list_id, fail_at) ==
    LET name == ItemsSheet(list_id)
    IN  IF fail_at # "get_items" /\ SheetExists(book, name)
        THEN [raised |-> FALSE, book |-> book]
        ELSE IF fail_at = "add_items" \/ SheetExists(book, name)
             THEN [raised |-> TRUE, book |-> book]
             ELSE IF fail_at = "header_items"
                  THEN [raised |-> TRUE, book |-> AddSheet(book, name)]
                  ELSE [raised |-> FALSE,
                        book |-> UpdateRow1(AddSheet(book, name), name, ItemsHeader)]

\* sheet_tools.py:200-223: [raised, book]
WriteItems(book, list_id, shopping_items, fail_at) ==
    LET name == ItemsSheet(list_id)
        cleared == ClearFromRow2(book, name)
    IN  IF fail_at = "clear_items" THEN [raised |-> TRUE, book |-> book]
        ELSE IF shopping_items = <<>> THEN [raised |-> FALSE, book |-> cleared]
             ELSE IF fail_at = "append_items" THEN [raised |-> TRUE, book |-> cleared]
                  ELSE [raised |-> FALSE,
                        book |-> AppendRows(cleared, name, ItemsData(shopping_items))]

\* the result strings of lines 225 and 227
Saved(list_id, total_items) == <<"saved", list_id, total_items>>
ErrorSaving == <<"error saving shopping list">>

\* mutant: the items are also appended to the inventory sheet
save_shopping_list_IntoInventory(list_id, date_created, meal_plan, shopping_items, book, fail_at) ==
    [result |-> Saved(list_id, Len(shopping_items)),
     book |-> [book EXCEPT !.Sheet1 =
                  book.Sheet1 \o [k \in 1..Len(shopping_items) |->
                                     <<shopping_items[k].item,
                                       NumberCell(shopping_items[k].quantity),
                                       shopping_items[k].unit>>]]]

\* [result, book]: every exception is caught and turned into the error
\* string; what was written before it stays written
save_shopping_list(list_id, date_created, meal_plan, shopping_items, book, fail_at) ==
    LET meta == EnsureMetaSheet(book, fail_at)
        total_items == Len(shopping_items)
        with_row == AppendRows(meta.book, MetaSheet,
                               << <<list_id, date_created, meal_plan, total_items, "active">> >>)
        items == EnsureItemsSheet(with_row, list_id, fail_at)
        written == WriteItems(items.book, list_id, shopping_items, fail_at)
    IN  IF meta.raised THEN [result |-> ErrorSaving, book |-> meta.book]
        ELSE IF fail_at = "append_meta" THEN [result |-> ErrorSaving, book |-> meta.book]
        ELSE IF items.raised THEN [result |-> ErrorSaving, book |-> items.book]
        ELSE IF written.raised THEN [result |-> ErrorSaving, book |-> written.book]
        ELSE [result |-> Saved(list_id, total_items), book |-> written.book]

\* values().get(range="<name>!A2:.."): rows 2.. of a sheet that exists
RowsFrom2(book, name) == SubSeq(book.sheets[name], 2, Len(book.sheets[name]))

\* sheet_tools.py:70-102: any exception gives the empty list
get_shopping_lists(book, failed) ==
    IF failed \/ ~SheetExists(book, MetaSheet) THEN <<>>
    ELSE LET rows == SelectSeq(RowsFrom2(book, MetaSheet), LAMBDA row : row # <<>>)
         IN  [k \in 1..Len(rows) |->
                [list_id |-> rows[k][1], date_created |-> rows[k][2],
                 meal_plan |-> rows[k][3], total_items |-> rows[k][4],
                 status |-> rows[k][5]]]

\* sheet_tools.py:230-263: any exception gives the empty list
get_shopping_list_items(list_id, book, failed) ==
    IF failed \/ ~SheetExists(book, ItemsSheet(list_id)) THEN <<>>
    ELSE LET rows == SelectSeq(RowsFrom2(book, ItemsSheet(list_id)),
                               LAMBDA row : row # <<>> /\ Strip(row[1]) # <<>>)
         IN  [k \in 1..Len(rows) |->
                [item |-> Strip(rows[k][1]), quantity |-> rows[k][2],
                 unit |-> Strip(rows[k][3]), status |-> rows[k][4]]]

\* streamlit_app.py:255-263: meal_plan_text names, day by day, the meals
\* with a dish
MealPlanDay(plan, d) ==
    SelectSeq([k \in 1..Len(meals) |-> <<meals[k], Strip(plan[d][meals[k]])>>],
              LAMBDA day_meal : day_meal[2] # <<>>)

meal_plan_text(plan) ==
    SelectSeq([d \in 1..num_days |-> <<d, MealPlanDay(plan, d)>>],
              LAMBDA summary : summary[2] # <<>>)

\* streamlit_app.py:330-333: the save button of the summary view
SaveShoppingList(fail_at) ==
    /\ pc = "displayed"
    /\ Len(save_log) < MaxSaves
    /\ LET list_id == clock
           r == save_shopping_list(list_id, clock, meal_plan_text(dish_plan),
                                   inventory_aware_list,
                                   [Sheet1 |-> Sheet1, sheets |-> sheets], fail_at)
       IN  /\ Sheet1' = r.book.Sheet1
           /\ sheets' = r.book.sheets
           /\ message' = r.result
           /\ save_log' = Append(save_log,
                                 [list_id |-> list_id,
                                  shopping_items |-> inventory_aware_list,
                                  ok |-> r.result # ErrorSaving])
    /\ UNCHANGED <<pc, runLocals, sessionVars, clock, editorVars, parseVars, agentVars, pageVars, callVars>>

\* a second passes: the next save gets another list identifier
Tick ==
    /\ save_log # <<>>
    /\ save_log[Len(save_log)].list_id = clock
    /\ clock' = clock + 1
    /\ UNCHANGED <<pc, Sheet1, runLocals, sessionVars, sheets, message, save_log,
                   editorVars, parseVars, agentVars, pageVars, callVars>>

(***************************************************************************)
(* A planner session with saves: inputs and specification                  *)
(***************************************************************************)
SaveExtractionOutcomes == {<<"output", <<"list", <<egg>> >> >>}

SaveNormalizationOutcomes == {<<"content", <<"json", ExpectedRecord>> >>}

SaveSheetStates == { <<>>, << <<egg, <<"1">>, kg>> >> }

InitSave ==
    /\ num_days = 1
    /\ meals = <<"Lunch">>
    /\ dish_plan = EmptyPlan
    /\ planning_view_mode = "day_by_day"
    /\ current_day_idx = 0
    /\ shopping_list_cache = <<>>
    /\ cache_sheet = <<>>
    /\ Sheet1 \in SaveSheetStates
    /\ pc = "planning"
    /\ all_ingredients = <<>>
    /\ normalized_ingredients = <<>>
    /\ deduped_ingredients = <<>>
    /\ inventory_aware_list = <<>>
    /\ error = ""
    /\ replies = <<>>
    /\ extract_log = <<>>
    /\ inventory_reads = <<>>
    /\ NoStore
    /\ NoEditors
    /\ NoParse
    /\ NoAgents
    /\ NoPage
    /\ NoCall

NextSave ==
    \/ \E values \in [MealSet -> Dishes], button \in {"prev", "next", "finish"} :
          DayByDaySubmit(values, button)
    \/ \E plan \in [Days -> [MealSet -> Dishes]] : MasterSubmit(plan)
    \/ SwitchView
    \/ StartOver
    \/ Rerun
    \/ ExtractOne(SaveExtractionOutcomes)
    \/ CheckCache
    \/ NormalizeOne(SaveNormalizationOutcomes)
    \/ \E failed \in BOOLEAN : ReconcileAndStore(failed)
    \/ \E fail_at \in SavePoints : SaveShoppingList(fail_at)
    \/ Tick

SpecSave == InitSave /\ [][NextSave]_vars

(***************************************************************************)
(* One generation of a shopping list from the master view, for two days    *)
(* of two meals: inputs and specification                                  *)
(***************************************************************************)
Roti == <<"R", "o", "t", "i">>
OrderDishes == {<<>>, Dal, <<" ">> \o Roti}

OrderExtractionOutcomes ==
    {<<"raise", e>> : e \in ErrorTexts} \cup {<<"output", <<"list", <<egg, oat>> >> >>}

\* the reply is no JSON: the result names the phrase that was sent
OrderNormalizationOutcomes == {<<"raise">>, <<"content", <<"text">> >>}

InitOrder ==
    /\ num_days = 2
    /\ meals = <<"Lunch", "Dinner">>
    /\ dish_plan = EmptyPlan
    /\ planning_view_mode = "master"
    /\ current_day_idx = 0
    /\ shopping_list_cache = <<>>
    /\ cache_sheet = <<>>
    /\ Sheet1 \in SheetStates
    /\ pc = "planning"
    /\ all_ingredients = <<>>
    /\ normalized_ingredients = <<>>
    /\ deduped_ingredients = <<>>
    /\ inventory_aware_list = <<>>
    /\ error = ""
    /\ replies = <<>>
    /\ extract_log = <<>>
    /\ inventory_reads = <<>>
    /\ NoStore
    /\ NoEditors
    /\ NoParse
    /\ NoAgents
    /\ NoPage
    /\ NoCall

NextOrder ==
    \/ \E plan \in [Days -> [MealSet -> OrderDishes]] : MasterSubmit(plan)
    \/ ExtractOne(OrderExtractionOutcomes)
    \/ CheckCache
    \/ NormalizeOne(OrderNormalizationOutcomes)
    \/ \E failed \in BOOLEAN : ReconcileAndStore(failed)

SpecOrder == InitOrder /\ [][NextOrder]_vars

(***************************************************************************)
(* ingredient_extractor.extract_ingredients: the parsing of the agent's    *)
(* final output (lines 73-91).  A character outside ASCII is written by    *)
(* its code point.                                                         *)
(***************************************************************************)
Bullet == "U+2022"

\* the fourth delimiter as the source file spells it: three characters,
\* U+00E2 U+20AC U+00A2
SourceBullet == <<"U+00E2", "U+20AC", "U+00A2">>

Delimiters == << <<",">>, <<";">>, <<"\n">>, SourceBullet, <<"-">> >>

\* str.find and str.rfind of one character, 1-based, 0 when absent
Find(s, c) ==
    IF \E i \in 1..Len(s) : s[i] = c
    THEN CHOOSE i \in 1..Len(s) : s[i] = c /\ \A k \in 1..(i - 1) : s[k] # c
    ELSE 0

RFind(s, c) ==
    IF \E i \in 1..Len(s) : s[i] = c
    THEN CHOOSE i \in 1..Len(s) : s[i] = c /\ \A k \in (i + 1)..Len(s) : s[k] # c
    ELSE 0

HasPrefix(s, d) == Len(s) >= Len(d) /\ SubSeq(s, 1, Len(d)) = d

\* delimiter in response_text
Contains(s, d) == \E i \in 1..(Len(s) - Len(d) + 1) : SubSeq(s, i, i + Len(d) - 1) = d

\* str.split(d)
RECURSIVE SplitAcc(_, _, _)
SplitAcc(s, d, cur) ==
    IF s = <<>> THEN <<cur>>
    ELSE IF HasPrefix(s, d)
         THEN <<cur>> \o SplitAcc(SubSeq(s, Len(d) + 1, Len(s)), d, <<>>)
         ELSE SplitAcc(Tail(s), d, Append(cur, Head(s)))

Split(s, d) == SplitAcc(s, d, <<>>)

\* [item.strip() for item in pieces if item.strip()]
RECURSIVE StrippedNonEmpty(_)
StrippedNonEmpty(pieces) ==
    IF pieces = <<>> THEN <<>>
    ELSE IF Strip(Head(pieces)) = <<>> THEN StrippedNonEmpty(Tail(pieces))
    ELSE <<Strip(Head(pieces))>> \o StrippedNonEmpty(Tail(pieces))

\* the loop over the delimiters: the pieces of the first delimiter that is in
\* the text and gives more than one non-empty piece, else the whole text
RECURSIVE SplitOnFirst(_, _)
SplitOnFirst(response, delimiters) ==
    IF delimiters = <<>> THEN <<Strip(response)>>
    ELSE LET delimiter == Head(delimiters)
             pieces == StrippedNonEmpty(Split(response, delimiter))
         IN  IF Contains(response, delimiter) /\ Len(pieces) > 1
             THEN pieces
             ELSE SplitOnFirst(response, Tail(delimiters))

\* ast.literal_eval of a text that opens with [ and closes with ]: a flat
\* list whose elements are quoted strings, integers, the constants True,
\* False and None, or bare names.  A bare name is a ValueError, any other
\* element a SyntaxError.  Nested displays are not covered: the responses of
\* this model have none.
Quotes == {"'", "\""}

IsLetter(c) ==
    LowerChar(c) \in {"a", "b", "c", "d", "e", "f", "g", "h", "i", "j", "k", "l", "m",
                      "n", "o", "p", "q", "r", "s", "t", "u", "v", "w", "x", "y", "z", "_"}

PyConstants == {<<"T", "r", "u", "e">>, <<"F", "a", "l", "s", "e">>, <<"N", "o", "n", "e">>}

\* the elements between the brackets: the text cut at the commas outside quotes
RECURSIVE SplitElements(_, _, _)
SplitElements(s, quote, cur) ==
    IF s = <<>> THEN <<cur>>
    ELSE LET c == Head(s)
         IN  IF c = "," /\ quote = ""
             THEN <<cur>> \o SplitElements(Tail(s), "", <<>>)
             ELSE SplitElements(Tail(s),
                                IF quote = "" /\ c \in Quotes THEN c
                                ELSE IF c = quote THEN "" ELSE quote,
                                Append(cur, c))

ElementKind(e) ==
    IF /\ Len(e) >= 2
       /\ e[1] \in Quotes
       /\ e[Len(e)] = e[1]
       /\ \A i \in 2..(Len(e) - 1) : e[i] \notin {e[1], "\\", "\n"}
    THEN "str"
    ELSE IF e # <<>> /\ (\A i \in 1..Len(e) : e[i] \in Digits) /\ (Len(e) = 1 \/ e[1] # "0")
    THEN "int"
    ELSE IF e \in PyConstants THEN "const"
    ELSE IF e # <<>> /\ (\A i \in 1..Len(e) : IsLetter(e[i])) THEN "name"
    ELSE "invalid"

\* str(element): the characters of a string, the digits of an integer, the
\* word of a constant
ElementStr(e) == IF ElementKind(e) = "str" THEN SubSeq(e, 2, Len(e) - 1) ELSE e

\* [raises, value]: raises is "" or the name of the exception
literal_eval(list_str) ==
    IF Len(list_str) < 2 \/ Head(list_str) # "[" \/ list_str[Len(list_str)] # "]"
    THEN [raises |-> "SyntaxError", value |-> <<>>]
    ELSE LET inner == SubSeq(list_str, 2, Len(list_str) - 1)
             cut == SplitElements(inner, "", <<>>)
             all == [i \in 1..Len(cut) |-> Strip(cut[i])]
             \* a comma may follow the last element
             elements == IF Len(all) > 1 /\ all[Len(all)] = <<>>
                         THEN SubSeq(all, 1, Len(all) - 1) ELSE all
         IN  IF Strip(inner) = <<>> THEN [raises |-> "", value |-> <<>>]
             ELSE IF \E i \in 1..Len(elements) : ElementKind(elements[i]) = "invalid"
             THEN [raises |-> "SyntaxError", value |-> <<>>]
             ELSE IF \E i \in 1..Len(elements) : ElementKind(elements[i]) = "name"
             THEN [raises |-> "ValueError", value |-> <<>>]
             ELSE [raises |-> "", value |-> [i \in 1..Len(elements) |-> ElementStr(elements[i])]]

\* has_brackets, and the text from the first [ to the last ] (empty when the
\* last ] comes before the first [)
HasBrackets(response) == Find(response, "[") > 0 /\ Find(response, "]") > 0

ListStr(response) == SubSeq(response, Find(response, "["), RFind(response, "]"))

\* lines 73-91: the list that extract_ingredients returns for the final
\* output of the agent, a string
parse_response(final_output) ==
    LET response == Strip(final_output)
    IN  IF HasBrackets(response)
        THEN LET parsed == literal_eval(ListStr(response))
             IN  IF parsed.raises # ""
                 THEN <<Strip(final_output)>>
                 ELSE [i \in 1..Len(parsed.value) |-> Strip(parsed.value[i])]
        ELSE SplitOnFirst(response, Delimiters)

(***************************************************************************)
(* The parsing of a response: inputs and specification                     *)
(***************************************************************************)
rice == <<"r", "i", "c", "e">>
two_eggs == <<"2", " ">> \o egg \o <<"s">>

ResponseItems == {rice, oat, two_eggs}

ResponseForms ==
    {"quoted", "prefixed", "bare", "comma", "semicolon", "newline", "bullet",
     "source bullet", "hyphen", "single", "mixed", "numbered"}

Quoted(x) == <<"'">> \o x \o <<"'">>

\* the shapes in which a model answers with the two ingredients x and y
Response(form, x, y) ==
    CASE form = "quoted" -> <<"[">> \o Quoted(x) \o <<",", " ">> \o Quoted(y) \o <<"]">>
      [] form = "prefixed" ->
            <<"o", "k", ":", " ", "[">> \o Quoted(x) \o <<",", "\n">> \o Quoted(y)
               \o <<",", "]", "\n">>
      [] form = "bare" -> <<"[">> \o x \o <<",", " ">> \o y \o <<"]">>
      [] form = "comma" -> x \o <<",", " ">> \o y
      [] form = "semicolon" -> x \o <<";">> \o y \o <<";">>
      [] form = "newline" -> x \o <<"\n">> \o y
      [] form = "bullet" -> <<Bullet, " ">> \o x \o <<" ", Bullet, " ">> \o y
      [] form = "source bullet" -> x \o <<" ">> \o SourceBullet \o <<" ">> \o y
      [] form = "hyphen" -> x \o <<" ", "-", " ">> \o y
      [] form = "single" -> <<" ">> \o x
      [] form = "mixed" -> x \o <<";", " ">> \o y \o <<",">>
      [] form = "numbered" -> <<"[", "1", "]", " ">> \o x \o <<",", " ">> \o y

Responses ==
    {Response(form, x, y) : form \in ResponseForms, x \in ResponseItems, y \in ResponseItems}
        \cup {<<>>, <<"[", "]">>}

\* the parsing of one final output
ParseResponse ==
    /\ pc = "response"
    /\ returned_ingredients' = parse_response(response_text)
    /\ pc' = "parsed"
    /\ UNCHANGED <<response_text, ingredient_strings, parsed_ingredients>>
    /\ UNCHANGED <<Sheet1, all_ingredients, normalized_ingredients, deduped_ingredients,
                   inventory_aware_list, error, replies, sessionVars, runLogs>>
    /\ UNCHANGED <<storeVars, editorVars, agentVars, pageVars, callVars>>

InitResponse ==
    /\ pc = "response"
    /\ response_text \in Responses
    /\ returned_ingredients = <<>>
    /\ ingredient_strings = <<>>
    /\ parsed_ingredients = <<>>
    /\ Sheet1 = <<>>
    /\ all_ingredients = <<>>
    /\ normalized_ingredients = <<>>
    /\ deduped_ingredients = <<>>
    /\ inventory_aware_list = <<>>
    /\ error = ""
    /\ replies = <<>>
    /\ NoSession
    /\ NoStore
    /\ NoEditors
    /\ NoAgents
    /\ NoPage
    /\ NoCall

NextResponse == ParseResponse

SpecResponse == InitResponse /\ [][NextResponse]_vars

(***************************************************************************)
(* streamlit_app.parse_ingredient_string and parse_ingredients_to_dicts    *)
(***************************************************************************)
\* an alternative of the unit group: a word, and whether "s?" follows it
PluralPattern ==
    <<[word |-> <<"c", "u", "p">>, optional_s |-> TRUE],
      [word |-> <<"t", "a", "b", "l", "e", "s", "p", "o", "o", "n">>, optional_s |-> TRUE],
      [word |-> <<"t", "e", "a", "s", "p", "o", "o", "n">>, optional_s |-> TRUE],
      [word |-> <<"p", "o", "u", "n", "d">>, optional_s |-> TRUE],
      [word |-> <<"l", "b">>, optional_s |-> TRUE],
      [word |-> <<"g", "r", "a", "m">>, optional_s |-> TRUE],
      [word |-> <<"g">>, optional_s |-> FALSE],
      [word |-> <<"k", "i", "l", "o", "g", "r", "a", "m">>, optional_s |-> TRUE],
      [word |-> <<"k", "g">>, optional_s |-> FALSE],
      [word |-> <<"o", "u", "n", "c", "e">>, optional_s |-> TRUE],
      [word |-> <<"o", "z">>, optional_s |-> FALSE],
      [word |-> <<"p", "i", "e", "c", "e">>, optional_s |-> TRUE],
      [word |-> <<"c", "l", "o", "v", "e">>, optional_s |-> TRUE],
      [word |-> <<"b", "o", "t", "t", "l", "e">>, optional_s |-> TRUE],
      [word |-> <<"c", "a", "n">>, optional_s |-> TRUE],
      [word |-> <<"p", "a", "c", "k", "e", "t">>, optional_s |-> TRUE],
      [word |-> <<"b", "u", "n", "c", "h", "e">>, optional_s |-> TRUE],
      [word |-> <<"h", "e", "a", "d">>, optional_s |-> TRUE] >>

SingularPattern ==
    <<[word |-> <<"c", "u", "p">>, optional_s |-> FALSE],
      [word |-> <<"t", "a", "b", "l", "e", "s", "p", "o", "o", "n">>, optional_s |-> FALSE],
      [word |-> <<"t", "e", "a", "s", "p", "o", "o", "n">>, optional_s |-> FALSE],
      [word |-> <<"p", "o", "u", "n", "d">>, optional_s |-> FALSE],
      [word |-> <<"l", "b">>, optional_s |-> FALSE],
      [word |-> <<"g", "r", "a", "m">>, optional_s |-> FALSE],
      [word |-> <<"k", "i", "l", "o", "g", "r", "a", "m">>, optional_s |-> FALSE],
      [word |-> <<"o", "u", "n", "c", "e">>, optional_s |-> FALSE],
      [word |-> <<"p", "i", "e", "c", "e">>, optional_s |-> FALSE],
      [word |-> <<"c", "l", "o", "v", "e">>, optional_s |-> FALSE],
      [word |-> <<"b", "o", "t", "t", "l", "e">>, optional_s |-> FALSE],
      [word |-> <<"c", "a", "n">>, optional_s |-> FALSE],
      [word |-> <<"p", "a", "c", "k", "e", "t">>, optional_s |-> FALSE],
      [word |-> <<"b", "u", "n", "c", "h">>, optional_s |-> FALSE],
      [word |-> <<"h", "e", "a", "d">>, optional_s |-> FALSE] >>

quantity_patterns == <<PluralPattern, SingularPattern>>

\* the number of leading characters of s that satisfy the test
RECURSIVE LeadingDigits(_)
LeadingDigits(s) ==
    IF s # <<>> /\ Head(s) \in Digits THEN 1 + LeadingDigits(Tail(s)) ELSE 0

RECURSIVE LeadingSpaces(_)
LeadingSpaces(s) ==
    IF s # <<>> /\ IsSpace(Head(s)) THEN 1 + LeadingSpaces(Tail(s)) ELSE 0

Drop(s, n) == SubSeq(s, n + 1, Len(s))

\* the length of the match of \d+(?:\.\d+)? at the start of s, 0 when none
NumberLength(s) ==
    LET n == LeadingDigits(s)
        m == IF n > 0 /\ Len(s) > n /\ s[n + 1] = "." THEN LeadingDigits(Drop(s, n + 1)) ELSE 0
    IN  IF m > 0 THEN n + 1 + m ELSE n

\* float(group 1) as the pair <<m, d>> that stands for m / 10^d, d least
RECURSIVE Reduced(_, _)
Reduced(m, d) == IF d > 0 /\ m % 10 = 0 THEN Reduced(m \div 10, d - 1) ELSE <<m, d>>

DecimalValue(text) ==
    LET n == LeadingDigits(text)
        fraction == IF Len(text) > n THEN Drop(text, n + 1) ELSE <<>>
    IN  Reduced(DigitsValue(SubSeq(text, 1, n) \o fraction), Len(fraction))

\* \s+(.+)$ after the unit: white space, then at least one character and no
\* line break up to the end
ItemFollows(s) ==
    LET k == LeadingSpaces(s)
    IN  /\ k > 0
        /\ Len(s) > k
        /\ \A i \in (k + 1)..Len(s) : s[i] # "\n"

\* the length of the match of one alternative at the start of s such that
\* the rest of the pattern matches too, 0 when none; "s?" is tried with the s
\* first
AlternativeLength(alternative, s) ==
    LET n == Len(alternative.word)
        with_s == /\ alternative.optional_s
                  /\ Len(s) > n
                  /\ LowerChar(s[n + 1]) = "s"
                  /\ ItemFollows(Drop(s, n + 1))
    IN  IF Len(s) >= n /\ Lower(SubSeq(s, 1, n)) = alternative.word
        THEN IF with_s THEN n + 1
             ELSE IF ItemFollows(Drop(s, n)) THEN n ELSE 0
        ELSE 0

\* the first alternative of the pattern that matches at the start of s
RECURSIVE UnitLength(_, _)
UnitLength(pattern, s) ==
    IF pattern = <<>> THEN 0
    ELSE IF AlternativeLength(Head(pattern), s) > 0
         THEN AlternativeLength(Head(pattern), s)
         ELSE UnitLength(Tail(pattern), s)

\* re.search(pattern, ingredient_str, re.IGNORECASE): [matched, groups]
Search(pattern, ingredient_str) ==
    LET n == NumberLength(ingredient_str)
        after_number == Drop(ingredient_str, n)
        at_unit == Drop(after_number, LeadingSpaces(after_number))
        u == UnitLength(pattern, at_unit)
        after_unit == Drop(at_unit, u)
    IN  IF n > 0 /\ u > 0
        THEN [matched |-> TRUE,
              groups |-> <<SubSeq(ingredient_str, 1, n), SubSeq(at_unit, 1, u),
                           Drop(after_unit, LeadingSpaces(after_unit))>>]
        ELSE [matched |-> FALSE, groups |-> <<>>]

\* re.sub(r'\s*\([^)]*\)', '', item): white space, an opening parenthesis and
\* everything up to the next closing parenthesis are removed, from left to right
RECURSIVE RemoveParenthetical(_)
RemoveParenthetical(item) ==
    IF item = <<>> THEN <<>>
    ELSE LET k == LeadingSpaces(item)
             rest == Drop(item, k)
         IN  IF rest # <<>> /\ Head(rest) = "(" /\ Find(rest, ")") > 0
             THEN RemoveParenthetical(Drop(rest, Find(rest, ")")))
             ELSE <<Head(item)>> \o RemoveParenthetical(Tail(item))

\* re.sub(r'\s+', ' ', item)
RECURSIVE CollapseSpaces(_)
CollapseSpaces(item) ==
    IF item = <<>> THEN <<>>
    ELSE IF IsSpace(Head(item))
         THEN <<" ">> \o CollapseSpaces(Drop(item, LeadingSpaces(item)))
         ELSE <<Head(item)>> \o CollapseSpaces(Tail(item))

Matched(groups) ==
    [item |-> Strip(CollapseSpaces(Strip(RemoveParenthetical(Strip(groups[3]))))),
     quantity |-> DecimalValue(groups[1]),
     unit |-> Lower(groups[2])]

\* the result when no pattern matches
TreatAsSingleItem(ingredient_str) ==
    [item |-> ingredient_str, quantity |-> <<1, 0>>, unit |-> piece]

\* the loop over quantity_patterns
RECURSIVE FirstMatch(_, _)
FirstMatch(patterns, ingredient_str) ==
    IF patterns = <<>> THEN TreatAsSingleItem(ingredient_str)
    ELSE IF Search(Head(patterns), ingredient_str).matched
         THEN Matched(Search(Head(patterns), ingredient_str).groups)
         ELSE FirstMatch(Tail(patterns), ingredient_str)

parse_ingredient_string(ingredient_str) == FirstMatch(quantity_patterns, Strip(ingredient_str))

\* mutant: a result with an empty item is kept
RECURSIVE parse_ingredients_to_dicts_KeepEmpty(_)
parse_ingredients_to_dicts_KeepEmpty(strings) ==
    IF strings = <<>> THEN <<>>
    ELSE <<parse_ingredient_string(Head(strings))>>
             \o parse_ingredients_to_dicts_KeepEmpty(Tail(strings))

RECURSIVE parse_ingredients_to_dicts(_)
parse_ingredients_to_dicts(strings) ==
    IF strings = <<>> THEN <<>>
    ELSE LET parsed == parse_ingredient_string(Head(strings))
         IN  IF parsed.item # <<>>
             THEN <<parsed>> \o parse_ingredients_to_dicts(Tail(strings))
             ELSE parse_ingredients_to_dicts(Tail(strings))

(***************************************************************************)
(* The parsing of ingredient phrases: inputs and specification             *)
(***************************************************************************)
cups == <<"c", "u", "p", "s">>
bunch == <<"b", "u", "n", "c", "h">>

\* a number as it is written, and the pair <<m, d>> of its value m / 10^d
NumberTexts ==
    { [text |-> <<"2">>, value |-> <<2, 0>>],
      [text |-> <<"2", ".", "5", "0">>, value |-> <<25, 1>>] }

UnitTexts == {cups, <<"C", "u", "p">>, <<"K", "G">>, bunch}

ItemTexts ==
    { rice,
      <<"f", "l", "a", "t", " ", " ">> \o rice \o <<" ", "(", "p", "o", "h", "a", ")">>,
      rice \o <<" ", "(", "a", " ", "(", "b", ")", ")">> }

\* "<number> <unit> <item>"
Phrase(number, unit, item) == number.text \o <<" ">> \o unit \o <<" ">> \o item

FormedPhrases == {Phrase(n, u, i) : n \in NumberTexts, u \in UnitTexts, i \in ItemTexts}

OtherPhrases ==
    { <<>>,
      <<" ">>,
      <<" ", "s", "a", "l", "t", " ">>,
      <<"2", " ">> \o cups,
      <<"2", " ">> \o rice,
      <<"1", "/", "2", " ">> \o cups \o <<" ">> \o rice,
      <<"2", " ">> \o cups \o <<" ", "(", "p", "o", "h", "a", ")">> }

IngredientPhrases == FormedPhrases \cup OtherPhrases

\* one call of parse_ingredients_to_dicts(ingredient_strings)
ParseIngredients ==
    /\ pc = "phrases"
    /\ parsed_ingredients' = parse_ingredients_to_dicts(ingredient_strings)
    /\ pc' = "parsed"
    /\ UNCHANGED <<response_text, returned_ingredients, ingredient_strings>>
    /\ UNCHANGED <<Sheet1, all_ingredients, normalized_ingredients, deduped_ingredients,
                   inventory_aware_list, error, replies, sessionVars, runLogs>>
    /\ UNCHANGED <<storeVars, editorVars, agentVars, pageVars, callVars>>

InitParse ==
    /\ pc = "phrases"
    /\ ingredient_strings \in SeqsUpTo(IngredientPhrases, MaxParse)
    /\ parsed_ingredients = <<>>
    /\ response_text = <<>>
    /\ returned_ingredients = <<>>
    /\ Sheet1 = <<>>
    /\ all_ingredients = <<>>
    /\ normalized_ingredients = <<>>
    /\ deduped_ingredients = <<>>
    /\ inventory_aware_list = <<>>
    /\ error = ""
    /\ replies = <<>>
    /\ NoSession
    /\ NoStore
    /\ NoEditors
    /\ NoAgents
    /\ NoPage
    /\ NoCall

NextParse == ParseIngredients

SpecParse == InitParse /\ [][NextParse]_vars

(***************************************************************************)
(* agent_base.AgentOrchestrator.execute_workflow.  The coroutine is cut at *)
(* its one suspension point, the await of agent.execute.  An agent is      *)
(* [status, before]: before is history, the status at the start of the     *)
(* workflow.  A result is [success, next_agent]; its context_updates have  *)
(* string keys and leave context.metadata a dict, so that update_context   *)
(* does not raise.                                                         *)
(***************************************************************************)
AgentNames == {"InventoryManager", "MealPlanner", "ShoppingOptimizer"}

None == "None"

\* what the awaited agent.execute(self.context) may do: return a result,
\* raise an Exception, or raise a BaseException that is no Exception
\* (asyncio.CancelledError when the task is cancelled, KeyboardInterrupt)
ExecuteOutcomes ==
    { [kind |-> "result", success |-> TRUE, next_agent |-> None],
      [kind |-> "result", success |-> TRUE, next_agent |-> "MealPlanner"],
      [kind |-> "result", success |-> TRUE, next_agent |-> "InventoryManager"],
      [kind |-> "result", success |-> FALSE, next_agent |-> None],
      [kind |-> "Exception"],
      [kind |-> "BaseException"] }

\* results[agent_name] = ...
SetResult(name, success) ==
    [n \in (DOMAIN results) \cup {name} |-> IF n = name THEN success ELSE results[n]]

\* agent.status = ...
SetStatus(name, status) == [agents EXCEPT ![name].status = status]

\* lines 152-156: "success": all(r.success for r in results.values() if r)
AllSucceeded(recorded) == \A n \in DOMAIN recorded : recorded[n]

\* mutant: the loop goes on after an unsuccessful result
AfterFailure_Continue(i, recorded) == [pc |-> "loop", i |-> i + 1, success |-> FALSE]

\* lines 137-140 and 142-150: break, then the return of lines 152-156
AfterFailure(i, recorded) == [pc |-> "returned", i |-> i, success |-> AllSucceeded(recorded)]

\* lines 111-119: the head of the loop up to the await, or the return when
\* the list is exhausted
StartAgent ==
    /\ workflow.pc = "loop"
    /\ IF workflow.i > Len(execution_order)
       THEN /\ workflow' = [workflow EXCEPT !.pc = "returned", !.success = AllSucceeded(results)]
            /\ UNCHANGED <<agents, executed>>
       ELSE LET agent_name == execution_order[workflow.i]
            IN  IF agent_name \notin DOMAIN agents
                THEN /\ workflow' = [workflow EXCEPT !.pc = "raised"]
                     /\ UNCHANGED <<agents, executed>>
                ELSE /\ agents' = SetStatus(agent_name, "running")
                     /\ executed' = Append(executed, [agent |-> agent_name, ended |-> "pending"])
                     /\ workflow' = [workflow EXCEPT !.pc = "await"]
    /\ UNCHANGED <<execution_order, results, context, Sheet2>>
    /\ UNCHANGED <<pc, Sheet1, all_ingredients, normalized_ingredients, deduped_ingredients,
                   inventory_aware_list, error, replies, sessionVars, runLogs>>
    /\ UNCHANGED <<storeVars, editorVars, parseVars, pageVars, callVars>>

\* lines 122-150: the rest of the loop body after the await
FinishAgent(outcome) ==
    /\ workflow.pc = "await"
    /\ LET agent_name == execution_order[workflow.i]
       IN  CASE outcome.kind = "result" /\ outcome.success ->
                  /\ results' = SetResult(agent_name, TRUE)
                  /\ agents' = SetStatus(agent_name,
                                   IF outcome.next_agent # None
                                      /\ outcome.next_agent \in DOMAIN agents
                                   THEN "waiting_for_handoff" ELSE "completed")
                  /\ workflow' = [workflow EXCEPT !.pc = "loop", !.i = workflow.i + 1]
             [] outcome.kind = "result" /\ ~outcome.success ->
                  /\ results' = SetResult(agent_name, FALSE)
                  /\ agents' = SetStatus(agent_name, "error")
                  /\ workflow' = AfterFailure(workflow.i, SetResult(agent_name, FALSE))
             [] outcome.kind = "Exception" ->
                  /\ results' = SetResult(agent_name, FALSE)
                  /\ agents' = SetStatus(agent_name, "error")
                  /\ workflow' = AfterFailure(workflow.i, SetResult(agent_name, FALSE))
             [] outcome.kind = "BaseException" ->
                  \* not caught by "except Exception": it leaves execute_workflow
                  /\ workflow' = [workflow EXCEPT !.pc = "raised"]
                  /\ UNCHANGED <<results, agents>>
    /\ executed' = [executed EXCEPT ![Len(executed)].ended =
                        IF outcome.kind # "result" THEN outcome.kind
                        ELSE IF outcome.success THEN "success" ELSE "failure"]
    /\ UNCHANGED <<execution_order, context, Sheet2>>
    /\ UNCHANGED <<pc, Sheet1, all_ingredients, normalized_ingredients, deduped_ingredients,
                   inventory_aware_list, error, replies, sessionVars, runLogs>>
    /\ UNCHANGED <<storeVars, editorVars, parseVars, pageVars, callVars>>

(***************************************************************************)
(* A workflow: inputs and specification                                    *)
(***************************************************************************)
\* the agents added to the orchestrator; an agent is IDLE when new and keeps
\* the status an earlier workflow left
RegisteredAgents == {{"InventoryManager", "ShoppingOptimizer"}, AgentNames}

EarlierStatuses == {"idle", "completed"}

InitWorkflow ==
    /\ \E registered \in RegisteredAgents :
          agents \in {[n \in registered |-> [status |-> s[n], before |-> s[n]]] :
                         s \in [registered -> EarlierStatuses]}
    /\ execution_order \in SeqsUpTo(AgentNames, MaxOrder)
    /\ results = <<>>
    /\ executed = <<>>
    /\ workflow = [pc |-> "loop", i |-> 1, success |-> FALSE]
    /\ context = <<>>
    /\ Sheet2 = <<>>
    /\ pc = "workflow"
    /\ Sheet1 = <<>>
    /\ all_ingredients = <<>>
    /\ normalized_ingredients = <<>>
    /\ deduped_ingredients = <<>>
    /\ inventory_aware_list = <<>>
    /\ error = ""
    /\ replies = <<>>
    /\ NoSession
    /\ NoStore
    /\ NoEditors
    /\ NoParse
    /\ NoPage
    /\ NoCall

NextWorkflow ==
    \/ StartAgent
    \/ \E outcome \in ExecuteOutcomes : FinishAgent(outcome)

SpecWorkflow == InitWorkflow /\ [][NextWorkflow]_vars

(***************************************************************************)
(* sheet_tools.update_inventory_item                                       *)
(***************************************************************************)
MaxSheet == 3

\* body={"values": [[item, quantity, unit]]}: the cells of the written row
WrittenRow(item, quantity, unit) == <<item, NumberCell(quantity), unit>>

\* for idx, row in enumerate(inv, start=2): the number the loop has at the
\* first record of inv whose name is item's, letter case apart; 0 if none
MatchIdx(inv, item) ==
    LET found == {k \in 1..Len(inv) : Lower(inv[k].item) = Lower(item)}
    IN  IF found = {} THEN 0
        ELSE (CHOOSE k \in found : \A j \in found : k <= j) + 1

\* values().update of the range A{idx}:C{idx}: sheet row idx is row idx - 1
\* of the rows from A2 on
UpdateRange(values, idx, row) == [values EXCEPT ![idx - 1] = row]

\* [raised, values]: the rows of the sheet after the call
update_inventory_item(values, item, quantity, unit) ==
    LET inv == get_inventory(values, FALSE)
        idx == MatchIdx(inv.value, item)
    IN  IF inv.raised THEN [raised |-> TRUE, values |-> values]
        ELSE IF idx # 0
        THEN [raised |-> FALSE,
              values |-> UpdateRange(values, idx, WrittenRow(item, quantity, unit))]
        ELSE [raised |-> FALSE,
              values |-> SheetAppend(values, WrittenRow(item, quantity, unit))]

\* one call of update_inventory_item against the sheet
UpdateInventoryItem ==
    /\ pc = "update"
    /\ tool_call.pc = "called"
    /\ LET r == update_inventory_item(Sheet1, tool_call.item, tool_call.quantity,
                                      tool_call.unit)
       IN  /\ Sheet1' = r.values
           /\ tool_call' = [tool_call EXCEPT !.pc = IF r.raised THEN "raised"
                                                    ELSE "returned"]
    /\ UNCHANGED <<pc, runLocals, sessionVars>>
    /\ UNCHANGED <<storeVars, editorVars, parseVars, agentVars, pageVars>>

UpdateRows ==
    { <<>>,
      <<egg, <<"2">>, kg>>,
      << <<" ", "E", "g", "g">>, <<"1">>, kg>>,
      <<oat>>,
      <<oat, <<"x">>, kg>> }

\* the rows a read of A2:C gives: rows after the last row with a value are
\* not part of it
UpdateSheets == {s \in SeqsUpTo(UpdateRows, MaxSheet) : s = <<>> \/ s[Len(s)] # <<>>}

UpdateItems == {egg, <<"E", "G", "G">>, oat, <<"e", "g", "g", " ">>}

InitUpdate ==
    /\ pc = "update"
    /\ Sheet1 \in UpdateSheets
    /\ \E item \in UpdateItems, quantity \in {0, 5} :
          tool_call = [item |-> item, quantity |-> quantity, unit |-> kg,
                       before |-> Sheet1, pc |-> "called"]
    /\ all_ingredients = <<>>
    /\ normalized_ingredients = <<>>
    /\ deduped_ingredients = <<>>
    /\ inventory_aware_list = <<>>
    /\ error = ""
    /\ replies = <<>>
    /\ extract_log = <<>>
    /\ inventory_reads = <<>>
    /\ NoSession
    /\ NoStore
    /\ NoEditors
    /\ NoParse
    /\ NoAgents
    /\ NoPage

NextUpdate == UpdateInventoryItem

SpecUpdate == InitUpdate /\ [][NextUpdate]_vars

(***************************************************************************)
(* custom_agents/shopping_optimizer.py: ShoppingOptimizerAgent             *)
(***************************************************************************)
MaxList == 2

\* inventory_lookup[item["item"].lower()] = item["quantity"]: a later record
\* of a name replaces an earlier one
RECURSIVE QuantityLookup(_, _)
QuantityLookup(current_inventory, acc) ==
    IF current_inventory = <<>> THEN acc
    ELSE LET item == Head(current_inventory)
             key == Lower(item.item)
         IN  QuantityLookup(Tail(current_inventory),
                 [k \in (DOMAIN acc) \cup {key} |->
                     IF k = key THEN item.quantity ELSE acc[k]])

\* mutant: an equal quantity does not cover the need
EnoughInInventory_Strict(available_qty, needed_qty) == available_qty > needed_qty

\* if available_qty >= needed_qty: we have enough
EnoughInInventory(available_qty, needed_qty) == available_qty >= needed_qty

\* the entry of a required ingredient; ingredient.get("sources", [])
MealPlanningEntry(ingredient, quantity) ==
    [item |-> ingredient.item, quantity |-> quantity, unit |-> ingredient.unit,
     reason |-> "meal_planning",
     sources |-> IF "sources" \in DOMAIN ingredient THEN ingredient.sources ELSE <<>>]

\* the loop over required_ingredients; ingredient["unit"] of an ingredient
\* without that key raises KeyError, and only an emitted ingredient reads it
RECURSIVE RequiredLoop(_, _, _)
RequiredLoop(required_ingredients, lookup, final_list) ==
    IF required_ingredients = <<>> THEN [raised |-> FALSE, value |-> final_list]
    ELSE LET ingredient == Head(required_ingredients)
             item_name == Lower(ingredient.item)
             needed_qty == ingredient.quantity
             rest == Tail(required_ingredients)
         IN  IF item_name \in DOMAIN lookup
             THEN IF EnoughInInventory(lookup[item_name], needed_qty)
                  THEN RequiredLoop(rest, lookup, final_list)
                  ELSE IF "unit" \notin DOMAIN ingredient
                  THEN [raised |-> TRUE, value |-> <<>>]
                  ELSE RequiredLoop(rest, lookup,
                          Append(final_list,
                                 MealPlanningEntry(ingredient,
                                                   needed_qty - lookup[item_name])))
             ELSE IF "unit" \notin DOMAIN ingredient
             THEN [raised |-> TRUE, value |-> <<>>]
             ELSE RequiredLoop(rest, lookup,
                     Append(final_list, MealPlanningEntry(ingredient, needed_qty)))

\* any(item["item"].lower() == item_name for item in final_list)
AlreadyIncluded(final_list, item_name) ==
    \E k \in 1..Len(final_list) : Lower(final_list[k].item) = item_name

\* the loop over context.metadata.get("initial_order", [])
RECURSIVE InitialOrderLoop(_, _)
InitialOrderLoop(initial_order, final_list) ==
    IF initial_order = <<>> THEN final_list
    ELSE LET order_item == Head(initial_order)
         IN  InitialOrderLoop(Tail(initial_order),
                 IF AlreadyIncluded(final_list, Lower(order_item.item)) THEN final_list
                 ELSE Append(final_list,
                             [item |-> order_item.item, quantity |-> order_item.quantity,
                              unit |-> order_item.unit, reason |-> order_item.reason,
                              sources |-> <<"inventory_assessment">>]))

\* metadata.get(key, [])
MetadataGet(metadata, key) == IF key \in DOMAIN metadata THEN metadata[key] ELSE <<>>

\* [raised, value]
_create_final_shopping_list(required_ingredients, current_inventory, ctx) ==
    LET required == RequiredLoop(required_ingredients,
                                 QuantityLookup(current_inventory, <<>>), <<>>)
    IN  IF required.raised THEN required
        ELSE [raised |-> FALSE,
              value |-> InitialOrderLoop(MetadataGet(ctx.metadata, "initial_order"),
                                         required.value)]

\* sheet_tools.get_order_sheet reads Sheet2!A2:C the way get_inventory reads
\* Sheet1!A2:C
get_order_sheet(values, failed) == get_inventory(values, failed)

\* sheet_tools.add_to_order_sheet: the rows of the sheet after the call; an
\* exception of a request is caught and turned into the returned text, the
\* sheet is as it was
add_to_order_sheet(values, item, quantity, unit, failed) ==
    LET existing_orders == get_order_sheet(values, failed)
        idx == MatchIdx(existing_orders.value, item)
    IN  IF existing_orders.raised THEN values
        ELSE IF idx # 0 THEN UpdateRange(values, idx, WrittenRow(item, quantity, unit))
        ELSE SheetAppend(values, WrittenRow(item, quantity, unit))

\* sheet_tools.clear_order_sheet: an exception of the request is caught
clear_order_sheet(values, failed) == IF failed THEN values ELSE SheetClear(values)

\* the loop of _update_order_sheet; the request of the add numbered fail_at
\* fails (0: none)
RECURSIVE AddLoop(_, _, _, _)
AddLoop(values, shopping_list, n, fail_at) ==
    IF n > Len(shopping_list) THEN values
    ELSE AddLoop(add_to_order_sheet(values, shopping_list[n].item,
                                    shopping_list[n].quantity, shopping_list[n].unit,
                                    n = fail_at),
                 shopping_list, n + 1, fail_at)

_update_order_sheet(values, shopping_list, clear_failed, fail_at) ==
    AddLoop(clear_order_sheet(values, clear_failed), shopping_list, 1, fail_at)

\* ShoppingOptimizerAgent.execute, as execute_workflow awaits it
OptimizerExecute(clear_failed, fail_at) ==
    /\ pc = "optimizer"
    /\ agents["ShoppingOptimizer"].status = "running"
    /\ LET final == _create_final_shopping_list(
                        MetadataGet(context.metadata, "required_ingredients"),
                        context.inventory, context)
       IN  IF final.raised
           THEN /\ results' = SetResult("ShoppingOptimizer", FALSE)
                /\ agents' = SetStatus("ShoppingOptimizer", "error")
                /\ UNCHANGED <<context, Sheet2>>
           ELSE /\ fail_at <= Len(final.value)
                /\ Sheet2' = _update_order_sheet(Sheet2, final.value, clear_failed, fail_at)
                /\ context' = [context EXCEPT !.shopping_list = final.value]
                /\ results' = SetResult("ShoppingOptimizer", TRUE)
                /\ agents' = SetStatus("ShoppingOptimizer", "completed")
    /\ UNCHANGED <<execution_order, executed, workflow>>
    /\ UNCHANGED <<pc, Sheet1, runLocals, sessionVars>>
    /\ UNCHANGED <<storeVars, editorVars, parseVars, pageVars, callVars>>

Egg == <<"E", "g", "g">>
litre == <<"l">>

InventoryRecords ==
    { [item |-> egg, quantity |-> 3, unit |-> kg],
      [item |-> Egg, quantity |-> 1, unit |-> kg] }

RequiredIngredients ==
    { [item |-> egg, quantity |-> 1, unit |-> kg],
      [item |-> Egg, quantity |-> 3, unit |-> litre],
      [item |-> oat, quantity |-> 2] }

InitialOrders ==
    { [item |-> <<"O", "a", "t">>, quantity |-> 6, unit |-> kg, reason |-> "low_stock"],
      [item |-> egg, quantity |-> 12, unit |-> <<>>, reason |-> "out_of_stock"] }

OrderSheets == { <<>>, << <<oat, <<"9">>, kg>> >> }

InitOptimizer ==
    /\ pc = "optimizer"
    /\ agents = [n \in {"ShoppingOptimizer"} |-> [status |-> "running", before |-> "idle"]]
    /\ execution_order = <<"ShoppingOptimizer">>
    /\ results = <<>>
    /\ executed = <<>>
    /\ workflow = [pc |-> "await", i |-> 1, success |-> FALSE]
    /\ \E inventory \in SeqsUpTo(InventoryRecords, MaxList),
          required \in SeqsUpTo(RequiredIngredients, MaxList),
          initial \in SeqsUpTo(InitialOrders, MaxList) :
          context = [inventory |-> inventory,
                     metadata |-> (IF required = <<>> THEN <<>>
                                   ELSE [k \in {"required_ingredients"} |-> required])
                                  @@ [k \in {"initial_order"} |-> initial],
                     shopping_list |-> <<>>]
    /\ Sheet2 \in OrderSheets
    /\ Sheet1 = <<>>
    /\ all_ingredients = <<>>
    /\ normalized_ingredients = <<>>
    /\ deduped_ingredients = <<>>
    /\ inventory_aware_list = <<>>
    /\ error = ""
    /\ replies = <<>>
    /\ extract_log = <<>>
    /\ inventory_reads = <<>>
    /\ NoSession
    /\ NoStore
    /\ NoEditors
    /\ NoParse
    /\ NoPage
    /\ NoCall

NextOptimizer ==
    \E clear_failed \in BOOLEAN, fail_at \in 0..MaxList :
        OptimizerExecute(clear_failed, fail_at)

SpecOptimizer == InitOptimizer /\ [][NextOptimizer]_vars

(***************************************************************************)
(* streamlit_app.py:123-245: the planning views of the Meal Planner page,  *)
(* the plan keyed by weekday names. One action is one run of the script.   *)
(***************************************************************************)
WeekdayNames ==
    <<"Monday", "Tuesday", "Wednesday", "Thursday", "Friday", "Saturday", "Sunday">>

\* get_default_days: strftime("%A") of today + i days, today a weekday number
get_default_days(date, n) == [i \in 1..n |-> WeekdayNames[((date + i - 1) % 7) + 1]]

\* {day: {meal: "" for meal in meals} for day in days}
BlankPlan(ds, ms) ==
    [d \in {ds[i] : i \in 1..Len(ds)} |-> [m \in {ms[k] : k \in 1..Len(ms)} |-> <<>>]]

\* mutant: a changed configuration leaves the day index as it is
ResetIdx_Keep(reset, idx) == idx

\* streamlit_app.py:180
ResetIdx(reset, idx) == IF reset THEN 0 ELSE idx

NoIdx == 0 - 1

\* dish_plan[day][meal] exists
HasEntry(plan, day, meal) == day \in DOMAIN plan /\ meal \in DOMAIN plan[day]

\* the keys a view goes through, day by day and meal by meal, up to and
\* including the first one dish_plan does not have
RECURSIVE KeysUsed(_, _, _, _)
KeysUsed(plan, ds, ms, n) ==
    IF n > Len(ds) * Len(ms) THEN {}
    ELSE LET day == ds[((n - 1) \div Len(ms)) + 1]
             meal == ms[((n - 1) % Len(ms)) + 1]
         IN  {<<day, meal>>} \cup
             (IF HasEntry(plan, day, meal) THEN KeysUsed(plan, ds, ms, n + 1) ELSE {})

KeyMissing(plan, keys) == \E key \in keys : ~HasEntry(plan, key[1], key[2])

\* the script raised: Streamlit shows the exception and the run ends
Raised(exception, plan, mode, idx, read_idx, keys) ==
    /\ pc' = "raised"
    /\ error' = exception
    /\ dish_plan' = plan
    /\ planning_view_mode' = mode
    /\ current_day_idx' = idx
    /\ page_reads' = [idx |-> read_idx, keys |-> keys, reset |-> last_config # <<num_days', meals'>>,
                      was |-> current_day_idx]

\* the run ended (at = "page") or called st.rerun() (at = "rerun")
Rendered(at, plan, mode, idx, read_idx, keys) ==
    /\ pc' = at
    /\ error' = ""
    /\ dish_plan' = plan
    /\ planning_view_mode' = mode
    /\ current_day_idx' = idx
    /\ page_reads' = [idx |-> read_idx, keys |-> keys, reset |-> last_config # <<num_days', meals'>>,
                      was |-> current_day_idx]

\* streamlit_app.py:196-227
DayByDayView(ds, ms, plan, idx, event) ==
    IF idx < 0 \/ idx > Len(ds) - 1
    THEN Raised("IndexError", plan, "day_by_day", idx, idx, {})
    ELSE LET day == ds[idx + 1]
             keys == KeysUsed(plan, <<day>>, ms, 1)
             submitted == event.kind = "day_form" /\ event.day = day
             written == IF submitted THEN [plan EXCEPT ![day] = event.values] ELSE plan
             button == IF submitted THEN event.button ELSE "none"
         IN  IF KeyMissing(plan, keys)
             THEN Raised("KeyError", plan, "day_by_day", idx, idx, keys)
             ELSE CASE button = "finish" ->
                         IF \E i \in 1..Len(ds), k \in 1..Len(ms) :
                               /\ HasEntry(written, ds[i], ms[k])
                               /\ written[ds[i]][ms[k]] # <<>>
                         THEN Rendered("rerun", written, "summary", 0, idx, keys)
                         ELSE IF KeyMissing(written, KeysUsed(written, ds, ms, 1))
                         THEN Raised("KeyError", written, "day_by_day", idx, idx,
                                     keys \cup KeysUsed(written, ds, ms, 1))
                         ELSE Rendered("page", written, "day_by_day", idx, idx, keys)
                    [] button = "prev" ->
                         Rendered("rerun", written, "day_by_day", Max(0, idx - 1), idx, keys)
                    [] button = "next" ->
                         Rendered("rerun", written, "day_by_day",
                                  IF Len(ds) - 1 <= idx + 1 THEN Len(ds) - 1 ELSE idx + 1,
                                  idx, keys)
                    [] OTHER -> Rendered("page", written, "day_by_day", idx, idx, keys)

\* streamlit_app.py:230-242
MasterView(ds, ms, plan, idx, event) ==
    LET keys == KeysUsed(plan, ds, ms, 1)
        submitted == event.kind = "master_form" /\ DOMAIN event.plan = DOMAIN plan
    IN  IF KeyMissing(plan, keys)
        THEN Raised("KeyError", plan, "master", idx, NoIdx, keys)
        ELSE IF submitted
        THEN Rendered("rerun", event.plan, "summary", idx, NoIdx, keys)
        ELSE Rendered("page", plan, "master", idx, NoIdx, keys)

\* streamlit_app.py:245-249: the summary view reads the plan of every day
SummaryView(ds, ms, plan, idx) ==
    LET keys == KeysUsed(plan, ds, ms, 1)
    IN  IF KeyMissing(plan, keys)
        THEN Raised("KeyError", plan, "summary", idx, NoIdx, keys)
        ELSE Rendered("page", plan, "summary", idx, NoIdx, keys)

\* one run of the script with the sidebar at nd days and meals ms, after the
\* event that caused it
PageRun(nd, ms, event) ==
    /\ num_days' = nd
    /\ meals' = ms
    /\ IF ms = <<>>
       THEN \* streamlit_app.py:149-151 st.stop()
            /\ pc' = "stopped"
            /\ UNCHANGED <<dish_plan, planning_view_mode, current_day_idx, error,
                           last_config, days, page_reads>>
       ELSE LET ds == get_default_days(today, nd)
                current_config == <<nd, ms>>
                reset == last_config # current_config
                plan == IF reset \/ dish_plan = <<>> THEN BlankPlan(ds, ms) ELSE dish_plan
                clicked == IF event.kind = "start_over" THEN "day_by_day"
                           ELSE planning_view_mode
                idx == ResetIdx(reset, IF event.kind = "start_over" THEN 0
                                       ELSE current_day_idx)
                mode == IF event.kind # "toggle" THEN clicked
                        ELSE IF clicked = "day_by_day" THEN "master" ELSE "day_by_day"
            IN  /\ days' = ds
                /\ last_config' = current_config
                /\ CASE mode = "day_by_day" -> DayByDayView(ds, ms, plan, idx, event)
                     [] mode = "master" -> MasterView(ds, ms, plan, idx, event)
                     [] OTHER -> SummaryView(ds, ms, plan, idx)
    /\ UNCHANGED <<Sheet1, today, shopping_list_cache, cache_sheet, all_ingredients,
                   normalized_ingredients, deduped_ingredients, inventory_aware_list,
                   replies, extract_log, inventory_reads>>
    /\ UNCHANGED <<storeVars, editorVars, parseVars, agentVars, callVars>>

\* a run without a widget event of the planner: the one st.rerun() starts,
\* or one another widget of the page causes
PageRerun ==
    /\ pc \in {"rerun", "page", "raised"}
    /\ PageRun(num_days, meals, [kind |-> "rerun"])

\* the slider or a checkbox of the sidebar is changed
ConfigChange(nd, ms) ==
    /\ pc \in {"page", "raised", "stopped"}
    /\ <<nd, ms>> # <<num_days, meals>>
    /\ PageRun(nd, ms, [kind |-> "rerun"])

\* streamlit_app.py:188-193
ToggleView ==
    /\ pc \in {"page", "raised"}
    /\ PageRun(num_days, meals, [kind |-> "toggle"])

\* a submit button of the form of the day shown; a disabled button cannot
\* be pressed
SubmitDay(values, button) ==
    /\ pc = "page"
    /\ planning_view_mode = "day_by_day"
    /\ DOMAIN values = {meals[k] : k \in 1..Len(meals)}
    /\ button = "prev" => current_day_idx # 0
    /\ button = "next" => current_day_idx # Len(days) - 1
    /\ PageRun(num_days, meals,
               [kind |-> "day_form", day |-> days[current_day_idx + 1],
                values |-> values, button |-> button])

\* "Plan My Week!" of the master view
SubmitWeek(plan) ==
    /\ pc = "page"
    /\ planning_view_mode = "master"
    /\ DOMAIN plan = {days[i] : i \in 1..Len(days)}
    /\ \A d \in DOMAIN plan : DOMAIN plan[d] = {meals[k] : k \in 1..Len(meals)}
    /\ PageRun(num_days, meals, [kind |-> "master_form", plan |-> plan])

\* streamlit_app.py:336: the callback of "Start Over" runs before the script
ClickStartOver ==
    /\ pc = "page"
    /\ planning_view_mode = "summary"
    /\ PageRun(num_days, meals, [kind |-> "start_over"])

StartDates == {2, 6}

\* the date changes between two runs of the script; a session is followed
\* over one change of the date
Midnight ==
    /\ pc \in {"page", "raised", "stopped"}
    /\ today \in StartDates
    /\ today' = (today + 1) % 7
    /\ UNCHANGED <<pc, Sheet1, runLocals, sessionVars, last_config, days, page_reads>>
    /\ UNCHANGED <<storeVars, editorVars, parseVars, agentVars, callVars>>

MealSelections == MealChoices \cup {<<>>}

InitPlanner ==
    /\ pc = "rerun"
    /\ today \in StartDates
    /\ num_days \in 1..MaxDays
    /\ meals \in MealChoices
    /\ dish_plan = <<>>
    /\ planning_view_mode = "day_by_day"
    /\ current_day_idx = 0
    /\ last_config = <<>>
    /\ days = <<>>
    /\ page_reads = <<>>
    /\ shopping_list_cache = <<>>
    /\ cache_sheet = <<>>
    /\ Sheet1 = <<>>
    /\ all_ingredients = <<>>
    /\ normalized_ingredients = <<>>
    /\ deduped_ingredients = <<>>
    /\ inventory_aware_list = <<>>
    /\ error = ""
    /\ replies = <<>>
    /\ extract_log = <<>>
    /\ inventory_reads = <<>>
    /\ NoStore
    /\ NoEditors
    /\ NoParse
    /\ NoAgents
    /\ NoCall

NextPlanner ==
    \/ PageRerun
    \/ \E nd \in 1..MaxDays, ms \in MealSelections : ConfigChange(nd, ms)
    \/ ToggleView
    \/ \E values \in [MealSet -> Dishes], button \in {"prev", "next", "finish"} :
          SubmitDay(values, button)
    \/ \E plan \in [{days[i] : i \in 1..Len(days)} -> [MealSet -> Dishes]] :
          SubmitWeek(plan)
    \/ ClickStartOver
    \/ Midnight

SpecPlanner == InitPlanner /\ [][NextPlanner]_vars

(***************************************************************************)
(* Claims about reconciliation, checked under SpecReconcile                *)
(***************************************************************************)
\* the inventory as get_inventory returns it from the sheet
Inventory == InventoryRows(Sheet1)

NameKey(item) == Strip(Lower(item))

InInventory(inv, r) == \E j \in 1..Len(inv) : NameKey(inv[j].item) = NameKey(r.item)

\* the inventory record the required ingredient r is compared with: the last
\* one of r's name
Available(inv, r) ==
    inv[CHOOSE j \in 1..Len(inv) :
           /\ NameKey(inv[j].item) = NameKey(r.item)
           /\ \A k \in (j + 1)..Len(inv) : NameKey(inv[k].item) # NameKey(r.item)]

SameUnit(inv, r) == InInventory(inv, r) /\ Lower(Available(inv, r).unit) = Lower(r.unit)
OtherUnit(inv, r) == InInventory(inv, r) /\ Lower(Available(inv, r).unit) # Lower(r.unit)

Occurrences(seq, x) == Cardinality({i \in 1..Len(seq) : seq[i] = x})

\* the entries of the shopping list made for ingredients with r's item and unit
EntriesFor(r) ==
    {j \in 1..Len(inventory_aware_list) :
        /\ inventory_aware_list[j].item = r.item
        /\ inventory_aware_list[j].unit = r.unit}

RequiredLike(r) ==
    {i \in 1..Len(deduped_ingredients) :
        /\ deduped_ingredients[i].item = r.item
        /\ deduped_ingredients[i].unit = r.unit}

\* C1: a required ingredient whose name is in the inventory with the same unit
\* (case-insensitively) is emitted only when required - available > 0, then
\* with that difference, the required unit and the status "Have <available
\* quantity> <available unit>"; otherwise nothing is emitted for it.
C1_Shortfall ==
    pc = "done" =>
        LET inv == Inventory
        IN  \A i \in 1..Len(deduped_ingredients) :
                LET r == deduped_ingredients[i]
                IN  SameUnit(inv, r) =>
                      LET a == Available(inv, r)
                          entries == EntriesFor(r)
                      IN  /\ Occurrences(inventory_aware_list,
                                 [item |-> r.item, quantity |-> r.quantity - a.quantity,
                                  unit |-> r.unit,
                                  inventory_status |-> <<"Have", a.quantity, a.unit>>])
                               = IF r.quantity - a.quantity > 0
                                 THEN Occurrences(deduped_ingredients, r) ELSE 0
                          /\ \A j \in entries :
                                /\ inventory_aware_list[j].quantity > 0
                                /\ inventory_aware_list[j].inventory_status
                                       = <<"Have", a.quantity, a.unit>>
                                /\ \E k \in RequiredLike(r) :
                                       inventory_aware_list[j].quantity
                                          = deduped_ingredients[k].quantity - a.quantity
                          /\ Cardinality(entries)
                               = Cardinality({k \in RequiredLike(r) :
                                         deduped_ingredients[k].quantity - a.quantity > 0})

C1_Witness ==
    /\ pc = "done"
    /\ LET inv == Inventory
       IN  \E i, k \in 1..Len(deduped_ingredients) :
              /\ SameUnit(inv, deduped_ingredients[i])
              /\ deduped_ingredients[i].quantity
                    - Available(inv, deduped_ingredients[i]).quantity > 0
              /\ EntriesFor(deduped_ingredients[i]) # {}
              /\ SameUnit(inv, deduped_ingredients[k])
              /\ deduped_ingredients[k].quantity
                    - Available(inv, deduped_ingredients[k]).quantity < 0
              /\ EntriesFor(deduped_ingredients[k]) = {}

\* C2: a required ingredient whose name is in the inventory with another unit
\* is emitted exactly once, with the full required quantity and the required
\* unit, and a status that mentions the different unit.
C2_UnitMismatch ==
    pc = "done" =>
        LET inv == Inventory
        IN  \A i \in 1..Len(deduped_ingredients) :
                LET r == deduped_ingredients[i]
                IN  OtherUnit(inv, r) =>
                      LET a == Available(inv, r)
                          entries == EntriesFor(r)
                      IN  /\ Occurrences(inventory_aware_list,
                                 [item |-> r.item, quantity |-> r.quantity, unit |-> r.unit,
                                  inventory_status |->
                                      <<"Have", a.quantity, a.unit, "(different unit)">>])
                               = Occurrences(deduped_ingredients, r)
                          /\ Cardinality(entries) = Cardinality(RequiredLike(r))
                          /\ \A j \in entries :
                                inventory_aware_list[j].inventory_status[4]
                                    = "(different unit)"

C2_Witness ==
    /\ pc = "done"
    /\ LET inv == Inventory
       IN  \E i \in 1..Len(deduped_ingredients) :
              /\ OtherUnit(inv, deduped_ingredients[i])
              /\ Available(inv, deduped_ingredients[i]).quantity
                    >= deduped_ingredients[i].quantity
              /\ Available(inv, deduped_ingredients[i]).unit # <<>>
              /\ EntriesFor(deduped_ingredients[i]) # {}

\* C3: a required ingredient whose name is not in the inventory is emitted
\* exactly once with the full required quantity and unit and the status
\* "Not in inventory"; with an empty inventory the list has one such entry
\* per required ingredient.
C3_NotInInventory ==
    pc = "done" =>
        LET inv == Inventory
        IN  /\ \A i \in 1..Len(deduped_ingredients) :
                  LET r == deduped_ingredients[i]
                  IN  ~InInventory(inv, r) =>
                        /\ Occurrences(inventory_aware_list,
                               [item |-> r.item, quantity |-> r.quantity, unit |-> r.unit,
                                inventory_status |-> <<"Not in inventory">>])
                             = Occurrences(deduped_ingredients, r)
                        /\ Cardinality(EntriesFor(r)) = Cardinality(RequiredLike(r))
            /\ inv = <<>> =>
                  /\ Len(inventory_aware_list) = Len(deduped_ingredients)
                  /\ \A j \in 1..Len(inventory_aware_list) :
                        inventory_aware_list[j].inventory_status = <<"Not in inventory">>

C3_Witness ==
    /\ pc = "done"
    /\ Inventory # <<>>
    /\ Len(deduped_ingredients) = 2
    /\ deduped_ingredients[1] # deduped_ingredients[2]
    /\ \A i \in 1..2 : ~InInventory(Inventory, deduped_ingredients[i])
    /\ Len(inventory_aware_list) = 2

\* the inventory without the rows that a later row of the same lower-cased,
\* trimmed name follows
RECURSIVE WithoutShadowed(_)
WithoutShadowed(inv) ==
    IF inv = <<>> THEN <<>>
    ELSE IF \E k \in 2..Len(inv) : NameKey(inv[k].item) = NameKey(inv[1].item)
         THEN WithoutShadowed(Tail(inv))
         ELSE <<Head(inv)>> \o WithoutShadowed(Tail(inv))

\* C16 (checked under SpecRepeated): when several inventory rows have the same lower-cased, trimmed name,
\* the last of them is the available amount: the shopping list is the one the
\* inventory gives with every earlier row of a repeated name removed, so the
\* earlier rows are neither added to the last one nor used in its place.
C16_LastRowWins ==
    pc = "done" =>
        inventory_aware_list =
            ReconcileLoop(deduped_ingredients, inventory_lookup(WithoutShadowed(Inventory)))

C16_Witness ==
    /\ pc = "done"
    /\ Len(Inventory) = 2
    /\ NameKey(Inventory[1].item) = NameKey(Inventory[2].item)
    /\ Inventory[1].quantity > Inventory[2].quantity
    /\ Len(deduped_ingredients) = 1
    /\ SameUnit(Inventory, deduped_ingredients[1])
    /\ Len(inventory_aware_list) = 1
    /\ inventory_aware_list[1].quantity = deduped_ingredients[1].quantity - Inventory[2].quantity
    /\ inventory_aware_list[1].inventory_status
          = StatusHave(Inventory[2].quantity, Inventory[2].unit)

(***************************************************************************)
(* Claims about aggregation, checked under SpecAggregate                   *)
(***************************************************************************)
\* the grouping key of input i: (lower(trim(item)), lower(trim(unit)))
InputKey(i) ==
    <<Strip(Lower(normalized_ingredients[i][2].item[2])),
      Strip(Lower(normalized_ingredients[i][2].unit[2]))>>

\* the key an output entry stands for
OutputKey(j) ==
    <<deduped_ingredients[j].item, Strip(Lower(deduped_ingredients[j].unit))>>

\* the quantity of input i, a missing or null one counting 0
InputQuantity(i) ==
    LET d == normalized_ingredients[i][2]
    IN  IF "quantity" \in DOMAIN d /\ d.quantity[1] = "num" THEN d.quantity[2] ELSE 0

RECURSIVE SumQuantities(_)
SumQuantities(S) ==
    IF S = {} THEN 0
    ELSE LET i == CHOOSE x \in S : TRUE
         IN  InputQuantity(i) + SumQuantities(S \ {i})

\* C4: aggregation gives exactly one entry per distinct key
\* (lower(trim(item)), lower(trim(unit))) of the inputs, its quantity the sum
\* of the quantities of the inputs of that key; inputs of the same item with
\* different units stay separate entries.
C4_OneEntryPerKey ==
    pc = "done" =>
        LET n == Len(normalized_ingredients)
            m == Len(deduped_ingredients)
            keys == {InputKey(i) : i \in 1..n}
        IN  /\ \A key \in keys :
                  LET entries == {j \in 1..m : OutputKey(j) = key}
                  IN  /\ Cardinality(entries) = 1
                      /\ \A j \in entries :
                            deduped_ingredients[j].quantity
                               = SumQuantities({k \in 1..n : InputKey(k) = key})
            /\ \A j \in 1..m : OutputKey(j) \in keys
            /\ m = Cardinality(keys)
            /\ \A key \in keys :
                  Cardinality({j \in 1..m : deduped_ingredients[j].item = key[1]})
                     = Cardinality({other \in keys : other[1] = key[1]})

C4_Witness ==
    /\ pc = "done"
    /\ Len(normalized_ingredients) = 3
    /\ InputKey(1) = InputKey(3)
    /\ normalized_ingredients[1] # normalized_ingredients[3]
    /\ InputKey(1)[1] = InputKey(2)[1]
    /\ InputKey(1)[2] # InputKey(2)[2]
    /\ InputQuantity(1) = 1 /\ InputQuantity(3) = 2
    /\ Len(deduped_ingredients) = 2
    /\ deduped_ingredients[1].quantity = 3

\* input i has no quantity key, or a null quantity
QuantityAbsent(i) ==
    LET d == normalized_ingredients[i][2]
    IN  "quantity" \notin DOMAIN d \/ d.quantity = PyNone

RECURSIVE SumPresent(_)
SumPresent(S) ==
    IF S = {} THEN 0
    ELSE LET i == CHOOSE x \in S : TRUE
         IN  normalized_ingredients[i][2].quantity[2] + SumPresent(S \ {i})

\* C17: a normalized ingredient with a missing or null quantity does not make
\* the aggregation fail, and the entry of its key carries the sum of the
\* quantities of the other inputs of that key that have one (0 when none has).
C17_MissingQuantityIsZero ==
    pc # "aggregate" =>
        \A i \in 1..Len(normalized_ingredients) :
            QuantityAbsent(i) =>
                /\ pc = "done"
                /\ error = ""
                /\ \E j \in 1..Len(deduped_ingredients) :
                      /\ OutputKey(j) = InputKey(i)
                      /\ deduped_ingredients[j].quantity
                            = SumPresent({k \in 1..Len(normalized_ingredients) :
                                            InputKey(k) = InputKey(i) /\ ~QuantityAbsent(k)})

C17_Witness ==
    /\ pc = "done"
    /\ Len(normalized_ingredients) = 3
    /\ "quantity" \notin DOMAIN normalized_ingredients[1][2]
    /\ ~QuantityAbsent(2)
    /\ HasKey(normalized_ingredients[3], "quantity") /\ QuantityAbsent(3)
    /\ InputKey(1) = InputKey(2) /\ InputKey(2) = InputKey(3)
    /\ Len(deduped_ingredients) = 1
    /\ deduped_ingredients[1].quantity = normalized_ingredients[2][2].quantity[2]

IndexPermutations(n) == {p \in [1..n -> 1..n] : \A a, b \in 1..n : p[a] = p[b] => a = b}

Range(seq) == {seq[i] : i \in 1..Len(seq)}

\* C5: aggregation does not depend on the order of its input: every
\* permutation of the normalized ingredients gives the same set of
\* {item, quantity, unit} entries.
C5_OrderIndependent ==
    pc = "done" =>
        \A p \in IndexPermutations(Len(normalized_ingredients)) :
            Range(Aggregate([i \in 1..Len(normalized_ingredients) |->
                                normalized_ingredients[p[i]]]).value)
               = Range(deduped_ingredients)

(***************************************************************************)
(* Claims about normalization, checked under SpecNormalize                 *)
(***************************************************************************)
IsExpectedRecord(v) ==
    /\ IsDict(v)
    /\ DOMAIN v[2] = {"item", "quantity", "unit"}
    /\ IsStr(v[2].item) /\ IsStr(v[2].unit) /\ v[2].quantity[1] = "num"

\* C6: an error of the service for one ingredient does not abort the
\* normalization of the others: the batch does not end with the error and
\* returns one result per input ingredient.
C6_FailureIsolated ==
    pc # "normalize" =>
        /\ error # "normalization"
        /\ Len(normalized_ingredients) = Len(all_ingredients)

\* C7: whatever the reply, the result is a record with item, quantity and
\* unit, the fallback {item: phrase, quantity: 1, unit: "piece"} when the
\* reply is not the expected record, and the aggregation of the results does
\* not fail.
C7_AlwaysRecord ==
    /\ \A i \in 1..Len(normalized_ingredients) :
          /\ IsExpectedRecord(normalized_ingredients[i])
          /\ ~CallRaises(replies[i]) =>
                \/ /\ replies[i][2][1] = "json"
                   /\ IsExpectedRecord(replies[i][2][2])
                   /\ normalized_ingredients[i] = replies[i][2][2]
                \/ normalized_ingredients[i]
                      = PyDict([item |-> PyStr(all_ingredients[i]), quantity |-> PyNum(1),
                                unit |-> PyStr(piece)])
    /\ error # "aggregation"

(***************************************************************************)
(* Claims about the summary view                                           *)
(***************************************************************************)
OutcomeFailed(outcome) == outcome[1] = "raise" \/ outcome[2][1] = "none"

\* s is "AI extraction failed for <dish>: ..."
IsMarkerFor(s, dish) ==
    LET n == Len(ExtractionFailedFor)
    IN  /\ Len(s) >= n + Len(dish) + 2
        /\ SubSeq(s, 1, n) = ExtractionFailedFor
        /\ SubSeq(s, n + 1, n + Len(dish)) = dish
        /\ SubSeq(s, n + Len(dish) + 1, n + Len(dish) + 2) = <<":", " ">>

ReturnedPhrases(outcome) ==
    IF outcome[2][1] = "list" THEN outcome[2][2] ELSE <<outcome[2][2]>>

\* ings is, call by call, one marker for a failed call and the stripped
\* phrases of a successful one
RECURSIVE KeptPerCall(_, _)
KeptPerCall(log, ings) ==
    IF log = <<>> THEN ings = <<>>
    ELSE LET call == Head(log)
         IN  IF OutcomeFailed(call.outcome)
             THEN /\ ings # <<>>
                  /\ IsMarkerFor(Head(ings), call.dish)
                  /\ KeptPerCall(Tail(log), Tail(ings))
             ELSE LET phrases == ReturnedPhrases(call.outcome)
                      k == Len(phrases)
                  IN  /\ Len(ings) >= k
                      /\ \A i \in 1..k : ings[i] = Strip(phrases[i])
                      /\ KeptPerCall(Tail(log), SubSeq(ings, k + 1, Len(ings)))

\* C8: an extraction failure for one dish is isolated to that dish: the
\* failure never leaves extract_ingredients, the dish gets one error marker in
\* place of its ingredients, and the calls for all planned dishes are made,
\* in order, with the ingredients of the other dishes kept.
C8_ExtractionIsolated ==
    LET planned == PlannedDishes(dish_plan)
    IN  /\ error # "extraction"
        /\ Len(extract_log) <= Len(planned)
        /\ \A i \in 1..Len(extract_log) : extract_log[i].dish = planned[i]
        /\ pc \notin {"planning", "extract"} => Len(extract_log) = Len(planned)
        /\ pc \in {"extract", "normalize", "aggregate"} =>
              KeptPerCall(extract_log, all_ingredients)

C8_Witness ==
    /\ pc = "normalize"
    /\ Len(extract_log) = 2
    /\ OutcomeFailed(extract_log[1].outcome)
    /\ ~OutcomeFailed(extract_log[2].outcome)
    /\ Len(all_ingredients) = 2
    /\ all_ingredients[2] = egg

\* C9: an inventory read failure is terminal for the reconciliation attempt:
\* the attempt made exactly one read, the run stops with the error, no
\* shopping list is returned and none is stored in shopping_list_cache for
\* the plan.
C9_ReadFailureTerminal ==
    \A i \in 1..Len(inventory_reads) :
        inventory_reads[i].raised =>
            /\ Len(inventory_reads) = 1
            /\ pc = "raised"
            /\ error = "inventory read"
            /\ inventory_aware_list = <<>>
            /\ \/ shopping_list_cache = <<>>
               \/ shopping_list_cache[1].hash # Sha256(dish_plan)

C9_Witness ==
    /\ pc = "raised"
    /\ error = "inventory read"
    /\ Len(inventory_reads) = 1
    /\ inventory_reads[1].raised
    /\ deduped_ingredients # <<>>
    /\ shopping_list_cache # <<>>

\* the list reconciliation computes from these ingredients and this sheet
ListFrom(ingredients, sheet) ==
    generate_inventory_aware_shopping_list(ingredients, sheet, FALSE).value

\* C10 as stated: every shopping list the summary view presents was computed
\* from an inventory read made for that presentation.
C10_FreshRead ==
    pc = "displayed" =>
        /\ Len(inventory_reads) = 1
        /\ inventory_aware_list = ListFrom(deduped_ingredients, inventory_reads[1].sheet)

\* C10 amended: the list presented is the one cached for the hash of the
\* current plan, computed from the inventory read made when that cache entry
\* was stored; a presentation makes at most one read, and none when the cache
\* already holds a list for the plan.
C10_CachedPerPlan ==
    pc = "displayed" =>
        /\ shopping_list_cache # <<>>
        /\ shopping_list_cache[1].hash = Sha256(dish_plan)
        /\ deduped_ingredients = shopping_list_cache[1].deduped_ingredients
        /\ inventory_aware_list = shopping_list_cache[1].inventory_aware_list
        /\ inventory_aware_list = ListFrom(deduped_ingredients, cache_sheet)
        /\ \/ inventory_reads = <<>>
           \/ /\ Len(inventory_reads) = 1
              /\ inventory_reads[1].sheet = cache_sheet

\* the second generation of a plan presents the list of the first although
\* the inventory has changed and would give another list
C10_Witness ==
    /\ pc = "displayed"
    /\ inventory_reads = <<>>
    /\ Sheet1 # cache_sheet
    /\ inventory_aware_list # ListFrom(deduped_ingredients, Sheet1)

(***************************************************************************)
(* Claims about the Inventory Checker                                      *)
(***************************************************************************)
SaveOver(u) == editors[u].pc = "done"

SaveFailed(u) == editors[u].clear_failed \/ editors[u].append_failed

\* C11: a store failure is always surfaced: a save of the inventory one of
\* whose spreadsheet writes failed ends with an error shown to the user,
\* never with the success message.
C11_FailureSurfaced ==
    \A u \in DOMAIN editors :
        SaveOver(u) /\ SaveFailed(u) => editors[u].message = "error"

\* the rows a save writes: the cells of the edited rows whose Item is not blank
RECURSIVE RowsWritten(_)
RowsWritten(edited_inventory) ==
    IF edited_inventory = <<>> THEN <<>>
    ELSE (IF Strip(Head(edited_inventory).Item) # <<>>
          THEN <<EditedCells(Head(edited_inventory))>> ELSE <<>>)
         \o RowsWritten(Tail(edited_inventory))

RECURSIVE IsSubsequence(_, _)
IsSubsequence(a, b) ==
    IF a = <<>> THEN TRUE
    ELSE IF b = <<>> THEN FALSE
         ELSE IF Head(a) = Head(b) THEN IsSubsequence(Tail(a), Tail(b))
              ELSE IsSubsequence(a, Tail(b))

BothSaved ==
    /\ DOMAIN editors = Users
    /\ \A u \in Users : SaveOver(u) /\ ~SaveFailed(u)

\* C14: two interleaved saves of the inventory race silently: when both are
\* over without a failed call, both users are shown success, and the sheet
\* holds the rows of the user whose clear came last, in order, with rows of
\* the other user possibly among them, and no row of the sheet cleared.
C14_SilentRace ==
    BothSaved =>
        /\ \A u \in Users : editors[u].message = "success"
        /\ last_clear \in Users
        /\ IsSubsequence(RowsWritten(editors[last_clear].edited_inventory), Sheet1)
        /\ \A k \in 1..Len(Sheet1) :
              \E u \in Users : \E j \in 1..Len(editors[u].edited_inventory) :
                  /\ Strip(editors[u].edited_inventory[j].Item) # <<>>
                  /\ Sheet1[k] = EditedCells(editors[u].edited_inventory[j])

\* both saves are over with success and the sheet is neither user's edit
C14_Witness ==
    /\ BothSaved
    /\ \A u \in Users :
          /\ editors[u].message = "success"
          /\ Sheet1 # RowsWritten(editors[u].edited_inventory)

(***************************************************************************)
(* Claims about the save of a shopping list                                *)
(***************************************************************************)
Book == [Sheet1 |-> Sheet1, sheets |-> sheets]

\* the rows a reader returns for the items of a saved list
ItemsAsRead(shopping_items) ==
    [k \in 1..Len(shopping_items) |->
        [item |-> Strip(shopping_items[k].item),
         quantity |-> shopping_items[k].quantity,
         unit |-> Strip(shopping_items[k].unit), status |-> "pending"]]

\* C12: a failed save is reported by its result, and a save that succeeds,
\* whatever failed saves came before it, leaves the store holding the
\* complete list: the list is among the lists read back, with its number of
\* items, and its items read back are those saved.
C12_SafeRetry ==
    /\ save_log # <<>> =>
          (message = ErrorSaving) = ~save_log[Len(save_log)].ok
    /\ save_log # <<>> /\ save_log[Len(save_log)].ok =>
          LET saved == save_log[Len(save_log)]
              lists == get_shopping_lists(Book, FALSE)
          IN  /\ \E k \in 1..Len(lists) :
                    /\ lists[k].list_id = saved.list_id
                    /\ lists[k].total_items = Len(saved.shopping_items)
              /\ get_shopping_list_items(saved.list_id, Book, FALSE)
                    = ItemsAsRead(saved.shopping_items)

\* C13: no step of planning, generation or save changes the rows of the
\* inventory sheet, and the only sheets written are ShoppingLists and the
\* ShoppingList_<id> sheets of the saves made.
C13_InventoryNotWritten ==
    [][/\ Sheet1' = Sheet1
       /\ DOMAIN sheets' \subseteq
             {MetaSheet} \cup {ItemsSheet(save_log'[k].list_id) : k \in 1..Len(save_log')}
       /\ sheets' # sheets => Len(save_log') = Len(save_log) + 1]_vars

\* a list with items was saved while the inventory holds rows
C13_Witness ==
    /\ Sheet1 # <<>>
    /\ save_log # <<>>
    /\ save_log[Len(save_log)].ok
    /\ save_log[Len(save_log)].shopping_items # <<>>
    /\ get_shopping_list_items(save_log[Len(save_log)].list_id, Book, FALSE) # <<>>

(***************************************************************************)
(* Claims about the order of the external calls                            *)
(***************************************************************************)
\* the dishes of day d, meal by meal, trimmed, without the blank ones
DishesOfDay(d) ==
    SelectSeq([k \in 1..Len(meals) |-> Strip(dish_plan[d][meals[k]])],
              LAMBDA dish : dish # <<>>)

RECURSIVE DishesUpToDay(_)
DishesUpToDay(d) ==
    IF d = 0 THEN <<>> ELSE DishesUpToDay(d - 1) \o DishesOfDay(d)

\* C15: the external calls of a generation are made one after the other:
\* the extraction calls follow the dishes day by day and meal by meal, the
\* normalization calls begin when every dish has been extracted and follow
\* the extracted ingredients one by one, and the single inventory read comes
\* when every ingredient has been normalized.
C15_SequentialCalls ==
    LET planned == DishesUpToDay(num_days)
    IN  /\ Len(extract_log) <= Len(planned)
        /\ \A i \in 1..Len(extract_log) : extract_log[i].dish = planned[i]
        /\ replies # <<>> => Len(extract_log) = Len(planned)
        /\ Len(replies) <= Len(all_ingredients)
        /\ \A i \in 1..Len(normalized_ingredients) :
              /\ i <= Len(replies)
              /\ replies[i] = <<"content", <<"text">> >> =>
                    /\ normalized_ingredients[i][1] = "dict"
                    /\ normalized_ingredients[i][2].item = PyStr(all_ingredients[i])
        /\ inventory_reads # <<>> =>
              /\ Len(inventory_reads) = 1
              /\ Len(extract_log) = Len(planned)
              /\ Len(replies) = Len(all_ingredients)
              /\ Len(normalized_ingredients) = Len(all_ingredients)

\* two days of two meals with three dishes, one extraction failed, every
\* ingredient normalized and the inventory read
C15_Witness ==
    /\ num_days = 2
    /\ Len(meals) = 2
    /\ Len(extract_log) = 3
    /\ extract_log[1].dish # extract_log[2].dish
    /\ dish_plan[1][meals[1]] = <<>>
    /\ Len(all_ingredients) = 5
    /\ Len(replies) = 5
    /\ Len(inventory_reads) = 1

(***************************************************************************)
(* Claims about the parsing of a response, checked under SpecResponse      *)
(***************************************************************************)
\* the delimiters as the text names them: comma, semicolon, newline, bullet,
\* hyphen
NamedDelimiters == << <<",">>, <<";">>, <<"\n">>, <<Bullet>>, <<"-">> >>

\* C18: the response is parsed by the first strategy that succeeds: the
\* elements of a bracketed list literal, stringified and trimmed; when the
\* brackets give no list, the non-empty pieces of the first of comma,
\* semicolon, newline, bullet, hyphen that gives more than one; else the
\* whole response as one item.
C18_ParseStrategies ==
    pc = "parsed" =>
        LET response == Strip(response_text)
            parsed == literal_eval(ListStr(response))
        IN  returned_ingredients =
                IF HasBrackets(response) /\ parsed.raises = ""
                THEN [i \in 1..Len(parsed.value) |-> Strip(parsed.value[i])]
                ELSE SplitOnFirst(response, NamedDelimiters)

(***************************************************************************)
(* Claims about the parsing of ingredient phrases, checked under SpecParse *)
(***************************************************************************)
\* the text outside parentheses: depth counts the parentheses that are open
RECURSIVE OutsideParentheses(_, _)
OutsideParentheses(s, depth) ==
    IF s = <<>> THEN <<>>
    ELSE IF Head(s) = "(" THEN OutsideParentheses(Tail(s), depth + 1)
    ELSE IF Head(s) = ")" /\ depth > 0 THEN OutsideParentheses(Tail(s), depth - 1)
    ELSE IF depth > 0 THEN OutsideParentheses(Tail(s), depth)
    ELSE <<Head(s)>> \o OutsideParentheses(Tail(s), depth)

IsFormed(s) == \E n \in NumberTexts, u \in UnitTexts, i \in ItemTexts : s = Phrase(n, u, i)

\* what the phrase "<number> <unit> <item>" is to give
FormedResult(s) ==
    LET c == CHOOSE c \in NumberTexts \X UnitTexts \X ItemTexts : s = Phrase(c[1], c[2], c[3])
    IN  [item |-> Strip(CollapseSpaces(OutsideParentheses(c[3], 0))),
         quantity |-> c[1].value,
         unit |-> Lower(c[2])]

\* C19: a phrase "<number> <unit> <item>" whose unit is a word of the unit
\* vocabulary, singular or plural, is parsed to the exact number, the unit
\* word in lower case and the item without its parenthetical annotations and
\* with single spaces between its words.
C19_NumberUnitItem ==
    pc = "parsed" /\ (\A i \in 1..Len(ingredient_strings) : IsFormed(ingredient_strings[i])) =>
        parsed_ingredients =
            [i \in 1..Len(ingredient_strings) |-> FormedResult(ingredient_strings[i])]

NoPrefixMatches(s) ==
    \A k \in 1..Len(quantity_patterns) : ~Search(quantity_patterns[k], Strip(s)).matched

RECURSIVE NonEmptyItems(_)
NonEmptyItems(records) ==
    IF records = <<>> THEN <<>>
    ELSE IF Head(records).item = <<>> THEN NonEmptyItems(Tail(records))
    ELSE <<Head(records)>> \o NonEmptyItems(Tail(records))

\* C20: a phrase in which no quantity and unit prefix matches, the empty
\* phrase included, is parsed to quantity 1, unit "piece" and the trimmed
\* phrase as item; parse_ingredients_to_dicts returns the results whose item
\* is not empty, in the order of the phrases.
C20_FallbackAndFilter ==
    pc = "parsed" =>
        parsed_ingredients =
            NonEmptyItems([i \in 1..Len(ingredient_strings) |->
                IF NoPrefixMatches(ingredient_strings[i])
                THEN [item |-> Strip(ingredient_strings[i]), quantity |-> <<1, 0>>,
                      unit |-> piece]
                ELSE parse_ingredient_string(ingredient_strings[i])])

C20_Witness ==
    /\ pc = "parsed"
    /\ Len(ingredient_strings) = 2
    /\ Strip(ingredient_strings[1]) = <<>>
    /\ NoPrefixMatches(ingredient_strings[2])
    /\ Strip(ingredient_strings[2]) \notin {<<>>, ingredient_strings[2]}
    /\ parsed_ingredients
         = << [item |-> Strip(ingredient_strings[2]), quantity |-> <<1, 0>>, unit |-> piece] >>

(***************************************************************************)
(* Claims about the orchestrator, checked under SpecWorkflow               *)
(***************************************************************************)
Succeeded(k) == executed[k].ended = "success"

\* C21: execute_workflow goes through execution_order once, in order and
\* without retry, whatever next_agent a result names: the calls of execute
\* are the first entries of the list, one call per entry; every call before
\* the last one ended with a successful result, so the first unsuccessful
\* result or raise ends the workflow; and the success flag returned is true
\* exactly when every call ended with a successful result.
C21_LinearNoRetry ==
    /\ Len(executed) <= Len(execution_order)
    /\ \A k \in 1..Len(executed) : executed[k].agent = execution_order[k]
    /\ \A k \in 1..(Len(executed) - 1) : Succeeded(k)
    /\ workflow.pc = "returned" =>
          /\ workflow.success = (\A k \in 1..Len(executed) : Succeeded(k))
          /\ workflow.success => Len(executed) = Len(execution_order)

C21_Witness ==
    /\ workflow.pc = "returned"
    /\ Len(execution_order) = 3
    /\ Len(executed) = 2
    /\ agents[executed[1].agent].status = "waiting_for_handoff"
    /\ executed[1].agent # execution_order[3]
    /\ executed[2].ended \in {"failure", "Exception"}
    /\ execution_order[3] \in DOMAIN agents
    /\ ~workflow.success

ExecutedAgents == {executed[k].agent : k \in 1..Len(executed)}

\* C22: when execute_workflow has returned or raised no agent is RUNNING:
\* every agent it executed is COMPLETED, WAITING_FOR_HANDOFF or ERROR, only
\* the agent executed last can be ERROR, and an agent it did not reach has
\* the status it had before the workflow.
C22_NoAgentRunning ==
    workflow.pc \in {"returned", "raised"} =>
        /\ \A n \in DOMAIN agents : agents[n].status # "running"
        /\ \A n \in ExecutedAgents :
              /\ agents[n].status \in {"completed", "waiting_for_handoff", "error"}
              /\ agents[n].status = "error" => n = executed[Len(executed)].agent
        /\ \A n \in (DOMAIN agents) \ ExecutedAgents : agents[n].status = agents[n].before

\* the rows of the sheet that hold the item, letter case apart
MatchingRows(values, item) ==
    {p \in 1..Len(values) :
        ~RowSkipped(values[p]) /\ Lower(Strip(values[p][1])) = Lower(item)}

\* C24: a returned update_inventory_item has either written its row over the
\* first row of the sheet that holds the item, letter case apart, and left
\* every other row as it was, or, when no row holds the item, appended
\* exactly one row; for every sheet content, blank rows between data rows
\* included.
C24_UpdateFirstMatchOrAppend ==
    (pc = "update" /\ tool_call.pc = "returned") =>
        LET before == tool_call.before
            row == WrittenRow(tool_call.item, tool_call.quantity, tool_call.unit)
            matching == MatchingRows(before, tool_call.item)
        IN  IF matching # {}
            THEN Sheet1 = [before EXCEPT
                              ![CHOOSE p \in matching : \A q \in matching : p <= q] = row]
            ELSE Sheet1 = Append(before, row)

\* the optimizer has returned a successful result
OptimizerSucceeded ==
    /\ pc = "optimizer"
    /\ "ShoppingOptimizer" \in DOMAIN results
    /\ results["ShoppingOptimizer"]

\* the records of the inventory with the name, letter case apart
InventoryRecordsOf(name) ==
    {j \in 1..Len(context.inventory) : Lower(context.inventory[j].item) = Lower(name)}

\* the quantity the inventory has of the name: that of its last record
AvailableOf(name) ==
    context.inventory[CHOOSE j \in InventoryRecordsOf(name) :
                          \A i \in InventoryRecordsOf(name) : i <= j].quantity

RequiredOfContext == MetadataGet(context.metadata, "required_ingredients")

InitialOrderOfContext == MetadataGet(context.metadata, "initial_order")

\* the required ingredients that are emitted: all but those the inventory covers
EmittedRequired ==
    {k \in 1..Len(RequiredOfContext) :
        ~(/\ InventoryRecordsOf(RequiredOfContext[k].item) # {}
          /\ AvailableOf(RequiredOfContext[k].item) >= RequiredOfContext[k].quantity)}

\* the initial-order items that are appended: those whose name no emitted
\* ingredient and no earlier initial-order item has
AppendedInitial ==
    {k \in 1..Len(InitialOrderOfContext) :
        /\ \A r \in EmittedRequired :
              Lower(RequiredOfContext[r].item) # Lower(InitialOrderOfContext[k].item)
        /\ \A j \in 1..(k - 1) :
              Lower(InitialOrderOfContext[j].item) # Lower(InitialOrderOfContext[k].item)}

\* the place in a list of the element numbered k of those kept
PlaceOf(kept, k) == Cardinality({i \in kept : i <= k})

\* C30: the final list is, in input order, every required ingredient the
\* inventory does not cover (a record of its lower-cased name with at least
\* the needed quantity, whatever the units), with needed - available when
\* the inventory has the name and the needed quantity when it has not,
\* followed by every initial-order item whose name, letter case apart, is
\* not yet in the list.
C30_FinalShoppingList ==
    OptimizerSucceeded =>
        LET final == context.shopping_list
            m == Cardinality(EmittedRequired)
        IN  /\ Len(final) = m + Cardinality(AppendedInitial)
            /\ \A k \in EmittedRequired :
                  LET ingredient == RequiredOfContext[k]
                      entry == final[PlaceOf(EmittedRequired, k)]
                  IN  /\ entry.item = ingredient.item
                      /\ entry.unit = ingredient.unit
                      /\ entry.reason = "meal_planning"
                      /\ entry.quantity =
                            IF InventoryRecordsOf(ingredient.item) # {}
                            THEN ingredient.quantity - AvailableOf(ingredient.item)
                            ELSE ingredient.quantity
            /\ \A k \in AppendedInitial :
                  LET order_item == InitialOrderOfContext[k]
                      entry == final[m + PlaceOf(AppendedInitial, k)]
                  IN  /\ entry.item = order_item.item
                      /\ entry.quantity = order_item.quantity
                      /\ entry.unit = order_item.unit
                      /\ entry.reason = order_item.reason

\* a covered ingredient is skipped whatever its unit, the next one is
\* emitted with the missing quantity, an initial-order item of its name is
\* left out and one of another name is appended
C30_Witness ==
    /\ OptimizerSucceeded
    /\ context.inventory = << [item |-> egg, quantity |-> 3, unit |-> kg],
                              [item |-> Egg, quantity |-> 1, unit |-> kg] >>
    /\ Len(RequiredOfContext) = 2
    /\ RequiredOfContext[1].item = egg
    /\ RequiredOfContext[2] = [item |-> Egg, quantity |-> 3, unit |-> litre]
    /\ Len(InitialOrderOfContext) = 2
    /\ InitialOrderOfContext[1].item = egg
    /\ InitialOrderOfContext[2].item = <<"O", "a", "t">>
    /\ Len(context.shopping_list) = 2
    /\ context.shopping_list[1].quantity = 2
    /\ context.shopping_list[2].reason = "low_stock"

\* the row add_to_order_sheet writes for an entry of the final list
RowOfEntry(entry) == WrittenRow(entry.item, entry.quantity, entry.unit)

\* C23: after a successful execute of the optimizer the order sheet holds
\* exactly one row per entry of the final list, with the entry's item,
\* quantity and unit, and no other row.
C23_OrderSheetIsFinalList ==
    OptimizerSucceeded =>
        LET final == context.shopping_list
        IN  /\ Len(Sheet2) = Len(final)
            /\ \A k \in 1..Len(final) :
                  Cardinality({p \in 1..Len(Sheet2) : Sheet2[p] = RowOfEntry(final[k])})
                      = Cardinality({j \in 1..Len(final) :
                                        RowOfEntry(final[j]) = RowOfEntry(final[k])})

\* a run of the planner page has gone through a view
PageShown == pc \in {"page", "rerun", "raised"} /\ page_reads # <<>>

\* C25: whenever planning_view_mode is "summary", at least one
\* dish_plan[day][meal] of the current days and meals is non-empty.
C25_SummaryOnlyWithDish ==
    (PageShown /\ planning_view_mode = "summary") =>
        \E i \in 1..Len(days), k \in 1..Len(meals) :
            /\ HasEntry(dish_plan, days[i], meals[k])
            /\ dish_plan[days[i]][meals[k]] # <<>>

\* C26: whenever the day-by-day view reads days[current_day_idx], the index
\* is between 0 and len(days) - 1.
C26_DayIndexInRange ==
    (PageShown /\ page_reads.idx # NoIdx) =>
        (0 <= page_reads.idx /\ page_reads.idx <= Len(days) - 1)

\* a run that found the configuration changed to fewer days while the
\* session was at the second day, and read the first day
C26_Witness ==
    /\ PageShown
    /\ page_reads.reset
    /\ page_reads.was = 1
    /\ Len(days) = 1
    /\ page_reads.idx = 0
    /\ pc = "page"

\* C27: whenever a view reads or writes dish_plan[day][meal] the plan has
\* that entry: the days of the plan are the current days, the weekday names
\* from today's date and num_days, and the meals of each day are the
\* selected meals.
C27_PlanHasCurrentKeys ==
    PageShown =>
        /\ \A key \in page_reads.keys : HasEntry(dish_plan, key[1], key[2])
        /\ DOMAIN dish_plan = {days[i] : i \in 1..Len(days)}
        /\ \A d \in DOMAIN dish_plan : DOMAIN dish_plan[d] = MealSet

(***************************************************************************)
(* Claims about a reconciliation during a save of the inventory            *)
(***************************************************************************)
ReconciledDuringSave ==
    /\ pc = "done"
    /\ Len(inventory_reads) = 1
    /\ inventory_reads[1].saving # {}

\* the inventory has a row of the ingredient's name
InventoryNames(values) ==
    {Strip(Lower(InventoryRows(values)[j].item)) : j \in 1..Len(InventoryRows(values))}

\* the list has the ingredient as "Not in inventory" with its full quantity
EmittedAsAbsent(list, ingredient) ==
    \E k \in 1..Len(list) :
        list[k] = ShoppingEntry(ingredient, ingredient.quantity, StatusNotInInventory)

\* reconciled against the rows, the ingredient is fully covered: no entry
Covers(values, ingredient) ==
    generate_inventory_aware_shopping_list(<<ingredient>>, values, FALSE)
        = [raised |-> FALSE, value |-> <<>>]

\* C28: a reconciliation that reads the inventory sheet between the clear of
\* a save and the last of its appends reads a part of the rows the save
\* writes, those written so far and none of before, and emits every
\* ingredient this part does not name as "Not in inventory" with its full
\* required quantity.
C28_PartialInventoryRead ==
    ReconciledDuringSave =>
        \A u \in inventory_reads[1].saving :
            LET read == inventory_reads[1].values
                written == RowsWritten(editors[u].edited_inventory)
            IN  /\ Len(read) < Len(written)
                /\ read = SubSeq(written, 1, Len(read))
                /\ \A k \in 1..Len(deduped_ingredients) :
                      Strip(Lower(deduped_ingredients[k].item)) \notin InventoryNames(read)
                          => EmittedAsAbsent(inventory_aware_list, deduped_ingredients[k])

\* the save ended with success, the inventory before it and the inventory
\* after it both cover an ingredient, and the reconciliation that ran in
\* between emitted it as "Not in inventory"
C28_Witness ==
    /\ ReconciledDuringSave
    /\ editors[1].pc = "done"
    /\ editors[1].message = "success"
    /\ Sheet1 = RowsWritten(editors[1].edited_inventory)
    /\ \E k \in 1..Len(deduped_ingredients) :
          /\ \A before \in LoadedSheets : Covers(before, deduped_ingredients[k])
          /\ Covers(Sheet1, deduped_ingredients[k])
          /\ EmittedAsAbsent(inventory_aware_list, deduped_ingredients[k])

(***************************************************************************)
(* Claims about reading back a saved shopping list                         *)
(***************************************************************************)
\* the save made last returned its success message
LastSaveSucceeded ==
    /\ save_log # <<>>
    /\ save_log[Len(save_log)].ok
    /\ message = Saved(save_log[Len(save_log)].list_id,
                       Len(save_log[Len(save_log)].shopping_items))

\* C29: after save_shopping_list has returned its success message,
\* get_shopping_list_items(list_id) returns the saved items in order, with
\* the same item, quantity and unit and the status "pending", also when the
\* list was saved under this list_id before, and get_shopping_lists has a
\* row of list_id with total_items the number of items and status "active".
C29_SaveReadRoundTrip ==
    LastSaveSucceeded =>
        LET saved == save_log[Len(save_log)]
            items == get_shopping_list_items(saved.list_id, Book, FALSE)
            lists == get_shopping_lists(Book, FALSE)
        IN  /\ Len(items) = Len(saved.shopping_items)
            /\ \A k \in 1..Len(items) :
                  /\ items[k].item = saved.shopping_items[k].item
                  /\ items[k].quantity = saved.shopping_items[k].quantity
                  /\ items[k].unit = saved.shopping_items[k].unit
                  /\ items[k].status = "pending"
            /\ \E k \in 1..Len(lists) :
                  /\ lists[k].list_id = saved.list_id
                  /\ lists[k].total_items = Len(saved.shopping_items)
                  /\ lists[k].status = "active"

====
